---- MODULE Spec2Model ----
(***************************************************************************)
(* EnvJSC: the dot-path key/value store (store / state module) and the     *)
(* JSON document collections (db module) built on it, with the snapshot    *)
(* file .envjs-store.json; and the scheduler, mock, plugin / loader, cli,  *)
(* server and watcher modules of an instance, each with its own state and  *)
(* its own specification.                                                  *)
(*                                                                         *)
(* JavaScript values are tagged records: undefined, null, numbers,         *)
(* strings, plain objects (a function from own keys to values) and arrays  *)
(* (a sequence of values).  The text of the snapshot file is represented   *)
(* by the JSON value it denotes, so JSON.stringify is the operator that    *)
(* drops what JSON cannot carry and JSON.parse is the identity on it.      *)
(***************************************************************************)
EXTENDS Integers, Sequences, FiniteSets, TLC

VARIABLES
    disk,         \* content of .envjs-store.json
    storeData,    \* the module-level root value
    phase,        \* "boot" | "loaded" | "ready" | "crashed"
    cache,        \* collectionsCache: the collection names that have a handle
    attached,     \* per handle: this.documents is the array inside storeData
    detached,     \* per handle: the array it holds once it is no longer in storeData
    writeFailed,  \* the latest writeFileSync of the snapshot threw
    last,         \* the last public call: operation, arguments, result
    hist,         \* which key paths store.set and store.delete were called on
    scheduler,    \* the scheduler module: _timers and the timers of the runtime
    mock,         \* the mock module: originalModules, mockedFunctions, the instances
    registry,     \* the modules that use and loader.load resolve
    cli,          \* the cli module: registered handlers, parsed arguments, output
    server,       \* the server module: serverInstance, isListening, the servers made
    watcher,      \* the watcher module: activeWatchers, pending debounce timers
    call          \* the last call made on one of these modules, with its result

vars ==
    <<disk, storeData, phase, cache, attached, detached, writeFailed, last, hist,
      scheduler, mock, registry, cli, server, watcher, call>>

\* the variables of the store and the collections
storeVars == <<disk, storeData, phase, cache, attached, detached, writeFailed, last, hist>>

\* the variables of the other modules
moduleVars == <<scheduler, mock, registry, cli, server, watcher, call>>

----------------------------------------------------------------------------
(* Bounds *)

\* the timers the scheduler may create in one run
MaxTimers == 3
\* the depth of nested calls at which the engine throws RangeError
MaxStack == 3
\* the number of http servers one run creates
MaxServers == 3
\* the number of watch calls of one run
MaxWatchers == 2

MaxDocs == 2          \* documents the collections may hold together before inserts stop

----------------------------------------------------------------------------
(* JavaScript values *)

Undef == [t |-> "undef"]
Null == [t |-> "null"]
Num(n) == [t |-> "num", n |-> n]
Str(s) == [t |-> "str", s |-> s]
Obj(f) == [t |-> "obj", f |-> f]
Arr(e) == [t |-> "arr", e |-> e]

EmptyMap == [k \in {} |-> Undef]
Put(f, k, v) == [y \in DOMAIN f \cup {k} |-> IF y = k THEN v ELSE f[y]]
Without(f, k) == [y \in DOMAIN f \ {k} |-> f[y]]
\* { ...a, ...b } on two key/value maps
Merge(f, g) == [y \in DOMAIN f \cup DOMAIN g |-> IF y \in DOMAIN g THEN g[y] ELSE f[y]]

\* the property names of the first array indices
IdxKey == <<"0", "1", "2", "3">>

\* typeof v === 'object' && v !== null
IsObject(v) == v.t \in {"obj", "arr"}

\* key in v, for v an object or an array
Has(v, key) ==
    CASE v.t = "obj" -> key \in DOMAIN v.f
      [] v.t = "arr" -> \/ key = "length"
                        \/ \E i \in 1..Len(v.e) : i <= Len(IdxKey) /\ IdxKey[i] = key
      [] OTHER -> FALSE

\* v[key], for v not null and not undefined
PropOf(v, key) ==
    CASE v.t = "obj" -> IF key \in DOMAIN v.f THEN v.f[key] ELSE Undef
      [] v.t = "arr" ->
            IF key = "length" THEN Num(Len(v.e))
            ELSE IF \E i \in 1..Len(v.e) : i <= Len(IdxKey) /\ IdxKey[i] = key
                 THEN v.e[CHOOSE i \in 1..Len(v.e) : i <= Len(IdxKey) /\ IdxKey[i] = key]
                 ELSE Undef
      [] OTHER -> Undef

\* { ...v }: the own enumerable properties of v as a key/value map
Spread(v) ==
    CASE v.t = "obj" -> v.f
      [] v.t = "arr" -> [k \in {IdxKey[i] : i \in 1..Len(v.e)} |->
                             v.e[CHOOSE i \in 1..Len(v.e) : IdxKey[i] = k]]
      [] OTHER -> EmptyMap

RECURSIVE JsonValue(_)
\* JSON.parse(JSON.stringify(v)) for v that is not undefined: properties whose
\* value is undefined are dropped, undefined array elements become null
JsonValue(v) ==
    CASE v.t = "obj" ->
            Obj([k \in {y \in DOMAIN v.f : v.f[y].t # "undef"} |-> JsonValue(v.f[k])])
      [] v.t = "arr" ->
            Arr([i \in 1..Len(v.e) |->
                    IF v.e[i].t = "undef" THEN Null ELSE JsonValue(v.e[i])])
      [] OTHER -> v

\* the value at path inside v (v itself for the empty path)
RECURSIVE ReadAt(_, _)
ReadAt(v, path) ==
    IF path = <<>> THEN v ELSE ReadAt(PropOf(v, Head(path)), Tail(path))

\* v with the value at path, which exists in v, replaced by new
RECURSIVE WriteAt(_, _, _)
WriteAt(v, path, new) ==
    IF path = <<>> THEN new
    ELSE IF v.t = "arr"
    THEN Arr([v.e EXCEPT ![CHOOSE i \in 1..Len(v.e) : IdxKey[i] = Head(path)] =
                            WriteAt(@, Tail(path), new)])
    ELSE Obj(Put(v.f, Head(path), WriteAt(v.f[Head(path)], Tail(path), new)))

\* the paths inside v that lead to an object or an array, v itself included
RECURSIVE StructPaths(_)
StructPaths(v) ==
    IF ~IsObject(v) THEN {}
    ELSE {<<>>} \cup
         UNION { {<<k>> \o q : q \in StructPaths(Spread(v)[k])} : k \in DOMAIN Spread(v) }

\* what a caller does to an object or array it holds: obj.m = 9, arr.push(9)
MutateInPlace(v) ==
    IF v.t = "arr" THEN Arr(Append(v.e, Num(9))) ELSE Obj(Put(v.f, "m", Num(9)))

\* JSON.parse(JSON.stringify(v)) handed out at the path at of a result: a new
\* value, no part of which is the object stored at loc
DeepCopyRefs(at, loc, v) == {}

\* v itself handed out at the path at of a result: if v is an object or an
\* array, it is the one stored at loc
SameRefs(at, loc, v) == IF IsObject(v) THEN {[at |-> at, loc |-> loc]} ELSE {}

----------------------------------------------------------------------------
(* The snapshot file *)

Absent == [t |-> "absent"]       \* fs.existsSync(storeFilePath) is false
Garbage == [t |-> "garbage"]     \* text that JSON.parse rejects

DB_STORAGE_KEY == "__dbCollections__"

\* saveStore() that serialises the collections alone
saveStoreDbOnly(root, file, ok) ==
    IF ok
    THEN {JsonValue(Obj([k \in DOMAIN root.f \cap {DB_STORAGE_KEY} |-> root.f[k]]))}
    ELSE {file, Garbage}

\* saveStore(): the contents the file can have after JSON.stringify(storeData,
\* null, 2) is written over it. A throwing writeFileSync is caught; it opens
\* the file with the flag 'w', so a failure to open leaves the file as it
\* was and a failure while writing leaves it truncated, an unparseable prefix.
saveStore(root, file, ok) == IF ok THEN {JsonValue(root)} ELSE {file, Garbage}

----------------------------------------------------------------------------
(* store.get / store.set / store.delete *)

RECURSIVE GetWalk(_, _, _)
\* the loop of store.get over the remaining keys, from the value current
GetWalk(current, keys, defaultValue) ==
    IF keys = <<>> THEN current
    ELSE IF ~IsObject(current) \/ ~Has(current, Head(keys)) THEN defaultValue
    ELSE GetWalk(PropOf(current, Head(keys)), Tail(keys), defaultValue)

StoreGetValue(root, keyPath, defaultValue) == GetWalk(root, keyPath, defaultValue)

\* current[key] = v on an object
Assign(current, key, v) == Obj(Put(current.f, key, v))

RECURSIVE SetWalkStrict(_, _, _)
\* store.set that gives up at a child that exists and is not an object
SetWalkStrict(current, keys, value) ==
    IF ~IsObject(current)
    THEN [ok |-> FALSE, value |-> current]
    ELSE IF Len(keys) = 1
    THEN [ok |-> TRUE, value |-> Assign(current, keys[1], value)]
    ELSE LET key == Head(keys)
             child == IF ~Has(current, key) THEN Obj(EmptyMap) ELSE PropOf(current, key)
             r == SetWalkStrict(child, Tail(keys), value)
         IN IF r.ok THEN [ok |-> TRUE, value |-> Assign(current, key, r.value)]
            ELSE [ok |-> FALSE, value |-> current]

RECURSIVE SetWalk(_, _, _)
\* store.set from the value current over the remaining keys: [ok, value], value
\* being current after the call.  Every key but the last is walked, a child
\* that is absent or not an object being replaced by {} in place; the last key
\* is assigned.  ok is FALSE on the logged "Cannot set value" paths.
SetWalk(current, keys, value) ==
    IF ~IsObject(current)
    THEN [ok |-> FALSE, value |-> current]
    ELSE IF Len(keys) = 1
    THEN [ok |-> TRUE, value |-> Assign(current, keys[1], value)]
    ELSE LET key == Head(keys)
             child == IF ~Has(current, key) \/ ~IsObject(PropOf(current, key))
                      THEN Obj(EmptyMap)
                      ELSE PropOf(current, key)
             r == SetWalk(child, Tail(keys), value)
         IN [ok |-> r.ok, value |-> Assign(current, key, r.value)]

StoreSetResult(root, keyPath, value) == SetWalk(root, keyPath, value)

RECURSIVE ArrayOnPath(_, _)
\* the walk of store.set / store.delete along keys would read or write a
\* property of an array
ArrayOnPath(current, keys) ==
    IF current.t = "arr" THEN TRUE
    ELSE IF Len(keys) = 1 \/ ~IsObject(current) \/ ~Has(current, Head(keys)) THEN FALSE
    ELSE ArrayOnPath(PropOf(current, Head(keys)), Tail(keys))

RECURSIVE DeleteWalkUndefine(_, _)
\* store.delete that assigns undefined to the key instead of deleting it
DeleteWalkUndefine(current, keys) ==
    IF Len(keys) = 1
    THEN IF IsObject(current) /\ Has(current, keys[1])
         THEN [ok |-> TRUE, value |-> Assign(current, keys[1], Undef)]
         ELSE [ok |-> FALSE, value |-> current]
    ELSE IF ~IsObject(current) \/ ~Has(current, Head(keys))
         THEN [ok |-> FALSE, value |-> current]
         ELSE LET r == DeleteWalkUndefine(PropOf(current, Head(keys)), Tail(keys))
              IN [ok |-> r.ok,
                  value |-> IF r.ok THEN Assign(current, Head(keys), r.value) ELSE current]

RECURSIVE DeleteWalk(_, _)
\* store.delete from the value current: [ok, value]; ok is FALSE on the
\* logged "Delete failed" paths, which change nothing
DeleteWalk(current, keys) ==
    IF Len(keys) = 1
    THEN IF IsObject(current) /\ Has(current, keys[1])
         THEN [ok |-> TRUE, value |-> Obj(Without(current.f, keys[1]))]
         ELSE [ok |-> FALSE, value |-> current]
    ELSE IF ~IsObject(current) \/ ~Has(current, Head(keys))
         THEN [ok |-> FALSE, value |-> current]
         ELSE LET r == DeleteWalk(PropOf(current, Head(keys)), Tail(keys))
              IN [ok |-> r.ok,
                  value |-> IF r.ok THEN Assign(current, Head(keys), r.value) ELSE current]

StoreDeleteResult(root, keyPath) == DeleteWalk(root, keyPath)

----------------------------------------------------------------------------
(* db: matchesQuery and the reads of a Collection *)

\* a === b, for b a value written afresh by the caller: objects and arrays are
\* compared by reference, so a stored one is never === a fresh one
StrictEq(a, b) ==
    CASE a.t # b.t -> FALSE
      [] a.t = "num" -> a.n = b.n
      [] a.t = "str" -> a.s = b.s
      [] a.t \in {"undef", "null"} -> TRUE
      [] OTHER -> FALSE

\* the value is truthy
Truthy(v) ==
    CASE v.t \in {"undef", "null"} -> FALSE
      [] v.t = "num" -> v.n # 0
      [] v.t = "str" -> v.s # ""
      [] OTHER -> TRUE

\* matchesQuery that is satisfied by one equal field
matchesQueryAny(doc, query) ==
    IF ~Truthy(query) \/ ~IsObject(query) \/ DOMAIN Spread(query) = {} THEN TRUE
    ELSE \E key \in DOMAIN Spread(query) :
            StrictEq(PropOf(doc, key), Spread(query)[key])

\* matchesQuery(doc, query), for doc an object
matchesQuery(doc, query) ==
    IF ~Truthy(query) \/ ~IsObject(query) \/ DOMAIN Spread(query) = {} THEN TRUE
    ELSE \A key \in DOMAIN Spread(query) :
            StrictEq(PropOf(doc, key), Spread(query)[key])

\* s.filter(doc => matchesQuery(doc, query)), front to back
RECURSIVE FilterMatches(_, _)
FilterMatches(s, query) ==
    IF s = <<>> THEN <<>>
    ELSE IF matchesQuery(Head(s), query)
         THEN <<Head(s)>> \o FilterMatches(Tail(s), query)
         ELSE FilterMatches(Tail(s), query)

\* s.map(doc => JSON.parse(JSON.stringify(doc)))
MapCopy(s) == [i \in 1..Len(s) |-> JsonValue(s[i])]

\* find(query)
FindResult(docs, query) == Arr(MapCopy(FilterMatches(docs, query)))

RECURSIVE FirstMatch(_, _)
\* this.documents.find(doc => matchesQuery(doc, query)): undefined when none
FirstMatch(s, query) ==
    IF s = <<>> THEN Undef
    ELSE IF matchesQuery(Head(s), query) THEN Head(s)
    ELSE FirstMatch(Tail(s), query)

\* findOne(query)
FindOneResult(docs, query) ==
    LET foundDoc == FirstMatch(docs, query)
    IN IF Truthy(foundDoc) THEN JsonValue(foundDoc) ELSE Null

\* count(query)
CountResult(docs, query) ==
    IF ~Truthy(query) \/ ~IsObject(query) \/ DOMAIN Spread(query) = {}
    THEN Num(Len(docs))
    ELSE Num(Len(FilterMatches(docs, query)))

\* the path of document i of the collection name inside the root
DocLoc(name, i) == <<DB_STORAGE_KEY, name, IdxKey[i]>>

\* the indices from i on of the documents that match query, in order
RECURSIVE MatchSeq(_, _, _)
MatchSeq(docs, query, i) ==
    IF i > Len(docs) THEN <<>>
    ELSE IF matchesQuery(docs[i], query) THEN <<i>> \o MatchSeq(docs, query, i + 1)
    ELSE MatchSeq(docs, query, i + 1)

\* find(query): which parts of the result are stored objects themselves
FindRefs(docs, query, name) ==
    LET hit == MatchSeq(docs, query, 1)
    IN UNION { DeepCopyRefs(<<IdxKey[k]>>, DocLoc(name, hit[k]), docs[hit[k]]) :
                  k \in 1..Len(hit) }

\* findOne that returns foundDoc itself
FindOneRefsNoCopy(docs, query, name) ==
    LET hit == MatchSeq(docs, query, 1)
    IN IF hit = <<>> THEN {}
       ELSE SameRefs(<<>>, DocLoc(name, hit[1]), docs[hit[1]])

\* findOne(query): which parts of the result are stored objects themselves
FindOneRefs(docs, query, name) ==
    LET hit == MatchSeq(docs, query, 1)
    IN IF hit = <<>> THEN {}
       ELSE DeepCopyRefs(<<>>, DocLoc(name, hit[1]), docs[hit[1]])

\* insert(docOrArray): which parts of the result are stored objects
\* themselves; the accepted entries are stored from index Len(docs) + 1 on
InsertRefs(docs, docOrArray, name) ==
    LET toInsert == IF docOrArray.t = "arr" THEN docOrArray.e ELSE <<docOrArray>>
        n == Len(SelectSeq(toInsert, IsObject))
    IN UNION { DeepCopyRefs(IF docOrArray.t = "arr" THEN <<IdxKey[k]>> ELSE <<>>,
                            DocLoc(name, Len(docs) + k), toInsert) :
                  k \in 1..(IF docOrArray.t = "arr" THEN n ELSE IF n > 0 THEN 1 ELSE 0) }

\* update(query, data, options): which parts of the result are stored objects
\* themselves; the documents updated are the matches from the last one down,
\* or the last one alone, or the one upserted
UpdateRefs(docs, query, multi, upsert, name) ==
    LET hit == MatchSeq(docs, query, 1)
        upd == IF hit # <<>>
               THEN IF multi THEN [k \in 1..Len(hit) |-> hit[Len(hit) + 1 - k]]
                    ELSE <<hit[Len(hit)]>>
               ELSE IF upsert THEN <<Len(docs) + 1>> ELSE <<>>
    IN UNION { DeepCopyRefs(<<"updatedDocs", IdxKey[k]>>, DocLoc(name, upd[k]), docs) :
                  k \in 1..Len(upd) }

\* store.get(keyPath, defaultValue): which parts of the result are stored
\* objects themselves
StoreGetRefs(root, keyPath, defaultValue) ==
    IF GetWalk(root, keyPath, Undef) = GetWalk(root, keyPath, Null)
    THEN SameRefs(<<>>, keyPath, GetWalk(root, keyPath, defaultValue))
    ELSE {}

\* store.all(): which parts of the result are stored objects themselves
StoreAllRefs(root) == DeepCopyRefs(<<>>, <<>>, root)

----------------------------------------------------------------------------
(* db: insert *)

RECURSIVE InsertLoopTruthy(_, _, _, _, _)
\* the loop of insert that generates an _id whenever the given one is falsy
InsertLoopTruthy(docs, toInsert, gen, i, insertedItems) ==
    IF i > Len(toInsert)
    THEN [docs |-> docs, insertedItems |-> insertedItems]
    ELSE LET doc == toInsert[i]
         IN IF ~IsObject(doc)
            THEN InsertLoopTruthy(docs, toInsert, gen, i + 1, insertedItems)
            ELSE LET copy == Spread(doc)
                     newDoc == IF ~Truthy(PropOf(Obj(copy), "_id"))
                               THEN Obj(Put(copy, "_id", Str(gen[i])))
                               ELSE Obj(copy)
                 IN InsertLoopTruthy(Append(docs, newDoc), toInsert, gen, i + 1,
                                     Append(insertedItems, JsonValue(newDoc)))

RECURSIVE InsertLoopAcceptNull(_, _, _, _, _)
\* the loop of insert whose test is typeof doc !== 'object' alone, so that
\* null is let through
InsertLoopAcceptNull(docs, toInsert, gen, i, insertedItems) ==
    IF i > Len(toInsert)
    THEN [docs |-> docs, insertedItems |-> insertedItems]
    ELSE LET doc == toInsert[i]
         IN IF ~IsObject(doc) /\ doc.t # "null"
            THEN InsertLoopAcceptNull(docs, toInsert, gen, i + 1, insertedItems)
            ELSE LET copy == Spread(doc)
                     newDoc == IF PropOf(Obj(copy), "_id").t = "undef"
                               THEN Obj(Put(copy, "_id", Str(gen[i])))
                               ELSE Obj(copy)
                 IN InsertLoopAcceptNull(Append(docs, newDoc), toInsert, gen, i + 1,
                                         Append(insertedItems, JsonValue(newDoc)))

RECURSIVE InsertLoop(_, _, _, _, _)
\* the for loop of insert over toInsert from entry i on; gen[i] is what
\* generateId() returns if it is called for entry i
InsertLoop(docs, toInsert, gen, i, insertedItems) ==
    IF i > Len(toInsert)
    THEN [docs |-> docs, insertedItems |-> insertedItems]
    ELSE LET doc == toInsert[i]
         IN IF ~IsObject(doc)
            THEN InsertLoop(docs, toInsert, gen, i + 1, insertedItems)
            ELSE LET copy == Spread(doc)
                     newDoc == IF PropOf(Obj(copy), "_id").t = "undef"
                               THEN Obj(Put(copy, "_id", Str(gen[i])))
                               ELSE Obj(copy)
                 IN InsertLoop(Append(docs, newDoc), toInsert, gen, i + 1,
                               Append(insertedItems, JsonValue(newDoc)))

\* insert(docOrArray): [docs, ret, changed]
InsertResult(docs, docOrArray, gen) ==
    LET toInsert == IF docOrArray.t = "arr" THEN docOrArray.e ELSE <<docOrArray>>
        r == InsertLoop(docs, toInsert, gen, 1, <<>>)
    IN [docs |-> r.docs,
        changed |-> r.insertedItems # <<>>,
        ret |-> IF docOrArray.t = "arr" THEN Arr(r.insertedItems)
                ELSE IF r.insertedItems # <<>> THEN r.insertedItems[1]
                ELSE Null]

----------------------------------------------------------------------------
(* db: update, remove, clear *)

\* the transform functions callers pass to update
NoFn == "none"
UpdateFns == {"dropId", "changeId"}
\* transforms that return no object: null, undefined, a number
NonObjectFns == {"toNull", "toUndefined", "toNumber"}

\* updateDataOrFn(doc) for the transform named fn
ApplyFn(fn, doc) ==
    CASE fn = "dropId" -> Obj(Without(Spread(doc), "_id"))
      [] fn = "changeId" -> Obj(Put(Spread(doc), "_id", Num(7)))
      [] fn = "toNull" -> Null
      [] fn = "toUndefined" -> Undef
      [] fn = "toNumber" -> Num(5)
      [] OTHER -> doc

\* the check after the update of one document that keeps its _id: [threw, doc],
\* doc being what is stored in its place
KeepId(stored, originalDocCopy, modifiedDoc) ==
    IF originalDocCopy.t \in {"undef", "null"}
    THEN [threw |-> TRUE, doc |-> stored]             \* no copy that has an _id to read
    ELSE IF Truthy(PropOf(originalDocCopy, "_id"))
    THEN IF modifiedDoc.t \in {"undef", "null"}
         THEN [threw |-> TRUE, doc |-> stored]        \* TypeError reading _id
         ELSE IF PropOf(modifiedDoc, "_id").t = "undef"
                 \/ ~StrictEq(PropOf(modifiedDoc, "_id"), PropOf(originalDocCopy, "_id"))
              THEN IF ~IsObject(modifiedDoc)
                   THEN [threw |-> TRUE, doc |-> stored]   \* TypeError assigning _id
                   ELSE [threw |-> FALSE,
                         doc |-> Obj(Put(Spread(modifiedDoc), "_id",
                                         PropOf(originalDocCopy, "_id")))]
              ELSE [threw |-> FALSE, doc |-> modifiedDoc]
    ELSE [threw |-> FALSE, doc |-> modifiedDoc]

\* the merge of update in which the fields of the existing document win
ModifyExistingWins(originalDocCopy, updateData, fn) ==
    IF fn # NoFn THEN ApplyFn(fn, originalDocCopy)
    ELSE Obj(Merge(Spread(updateData), Spread(originalDocCopy)))

\* updateDataOrFn applied to the deep copy of a matching document
Modify(originalDocCopy, updateData, fn) ==
    IF fn # NoFn THEN ApplyFn(fn, originalDocCopy)
    ELSE Obj(Merge(Spread(originalDocCopy), Spread(updateData)))

\* the body of the update loop for one matching document
ModifiedDoc(stored, originalDocCopy, updateData, fn) ==
    KeepId(stored, originalDocCopy, Modify(originalDocCopy, updateData, fn))

\* the update loop once document i has matched and m is its ModifiedDoc
RECURSIVE UpdateLoop(_, _, _, _, _, _, _)
UpdateStep(docs, i, query, updateData, fn, multi, acc, m) ==
    IF m.threw
    THEN [acc EXCEPT !.docs = docs, !.docFound = TRUE, !.threw = TRUE]
    ELSE IF m.doc.t = "undef"
    THEN \* documents[i] is assigned, then JSON.parse(undefined) throws
         [acc EXCEPT !.docs = [docs EXCEPT ![i] = m.doc],
                     !.docFound = TRUE, !.threw = TRUE]
    ELSE IF ~multi
    THEN [acc EXCEPT !.docs = [docs EXCEPT ![i] = m.doc],
                     !.docFound = TRUE,
                     !.updatedCount = @ + 1,
                     !.updatedDocs = Append(@, JsonValue(m.doc))]
    ELSE UpdateLoop([docs EXCEPT ![i] = m.doc], i - 1, query, updateData, fn, multi,
                    [acc EXCEPT !.docFound = TRUE,
                                !.updatedCount = @ + 1,
                                !.updatedDocs = Append(@, JsonValue(m.doc))])

\* the for loop of update from index i down to the first one; acc carries
\* updatedCount, updatedResultDocs, docFound and whether an exception left it
UpdateLoop(docs, i, query, updateData, fn, multi, acc) ==
    IF i < 1 THEN [acc EXCEPT !.docs = docs]
    ELSE IF ~matchesQuery(docs[i], query)
    THEN UpdateLoop(docs, i - 1, query, updateData, fn, multi, acc)
    ELSE UpdateStep(docs, i, query, updateData, fn, multi, acc,
                    ModifiedDoc(docs[i], JsonValue(docs[i]), updateData, fn))

\* the upsert branch of update: [threw, doc], doc being the document pushed;
\* id is what generateId() returns if it is called
UpsertDoc(query, updateData, fn, id) ==
    LET q == Spread(query)
        returned == IF fn # NoFn THEN ApplyFn(fn, Obj(q))
                    ELSE Obj(Merge(q, Spread(updateData)))
    IN IF ~IsObject(returned)
       THEN [threw |-> TRUE, doc |-> returned]     \* TypeError on newDoc[qKey] or newDoc._id
       ELSE LET r == Spread(returned)
                filled == IF fn # NoFn
                          THEN [k \in DOMAIN r \cup DOMAIN q |->
                                  IF k \in DOMAIN q /\ PropOf(returned, k).t = "undef"
                                  THEN q[k] ELSE r[k]]
                          ELSE r
                newDoc == IF PropOf(Obj(filled), "_id").t = "undef"
                          THEN Put(filled, "_id", Str(id))
                          ELSE filled
            IN [threw |-> FALSE, doc |-> Obj(newDoc)]

\* update that takes the upsert branch whether or not a document matched
UpdateResultAlwaysUpsert(docs, query, updateData, fn, multi, upsert, id) ==
    LET acc0 == [docs |-> docs, updatedCount |-> 0, updatedDocs |-> <<>>,
                 docFound |-> FALSE, threw |-> FALSE]
        r == UpdateLoop(docs, Len(docs), query, updateData, fn, multi, acc0)
        u == UpsertDoc(query, updateData, fn, id)
        r2 == IF r.threw \/ ~upsert THEN r
              ELSE IF u.threw THEN [r EXCEPT !.threw = TRUE]
              ELSE [r EXCEPT !.docs = Append(@, u.doc),
                             !.updatedDocs = Append(@, JsonValue(u.doc)),
                             !.updatedCount = @ + 1]
    IN [docs |-> r2.docs,
        threw |-> r2.threw,
        changed |-> ~r2.threw /\ r2.updatedCount > 0,
        ret |-> IF r2.threw THEN Undef
                ELSE Obj([updatedCount |-> Num(r2.updatedCount),
                          updatedDocs |-> Arr(r2.updatedDocs)])]

\* update(query, updateDataOrFn, options): [docs, ret, changed, threw]
UpdateResult(docs, query, updateData, fn, multi, upsert, id) ==
    LET acc0 == [docs |-> docs, updatedCount |-> 0, updatedDocs |-> <<>>,
                 docFound |-> FALSE, threw |-> FALSE]
        r == UpdateLoop(docs, Len(docs), query, updateData, fn, multi, acc0)
        u == UpsertDoc(query, updateData, fn, id)
        r2 == IF r.threw \/ r.docFound \/ ~upsert THEN r
              ELSE IF u.threw THEN [r EXCEPT !.threw = TRUE]
              ELSE [r EXCEPT !.docs = Append(@, u.doc),
                             !.updatedDocs = Append(@, JsonValue(u.doc)),
                             !.updatedCount = @ + 1]
    IN [docs |-> r2.docs,
        threw |-> r2.threw,
        changed |-> ~r2.threw /\ r2.updatedCount > 0,
        ret |-> IF r2.threw THEN Undef
                ELSE Obj([updatedCount |-> Num(r2.updatedCount),
                          updatedDocs |-> Arr(r2.updatedDocs)])]

\* a without its element at index i: a.splice(i, 1)
Splice(a, i) == [j \in 1..(Len(a) - 1) |-> IF j < i THEN a[j] ELSE a[j + 1]]

RECURSIVE RemoveLoopSkips(_, _, _, _, _)
\* the loop of remove that steps over the index below a removed document
RemoveLoopSkips(docs, i, query, multi, removedCount) ==
    IF i < 1 THEN [docs |-> docs, removedCount |-> removedCount]
    ELSE IF ~matchesQuery(docs[i], query)
    THEN RemoveLoopSkips(docs, i - 1, query, multi, removedCount)
    ELSE IF ~multi THEN [docs |-> Splice(docs, i), removedCount |-> removedCount + 1]
    ELSE RemoveLoopSkips(Splice(docs, i), i - 2, query, multi, removedCount + 1)

RECURSIVE RemoveLoop(_, _, _, _, _)
\* the for loop of remove from index i down to the first one
RemoveLoop(docs, i, query, multi, removedCount) ==
    IF i < 1 THEN [docs |-> docs, removedCount |-> removedCount]
    ELSE IF ~matchesQuery(docs[i], query)
    THEN RemoveLoop(docs, i - 1, query, multi, removedCount)
    ELSE IF ~multi THEN [docs |-> Splice(docs, i), removedCount |-> removedCount + 1]
    ELSE RemoveLoop(Splice(docs, i), i - 1, query, multi, removedCount + 1)

\* remove(query, options): [docs, ret, changed]
RemoveResult(docs, query, multi) ==
    LET r == RemoveLoop(docs, Len(docs), query, multi, 0)
    IN [docs |-> r.docs,
        changed |-> r.removedCount > 0,
        ret |-> Obj([removedCount |-> Num(r.removedCount)])]

\* clear() that counts the documents and leaves them where they are
ClearResultCountsOnly(docs) ==
    [docs |-> docs,
     changed |-> Len(docs) > 0,
     ret |-> Obj([numRemoved |-> Num(Len(docs))])]

\* clear(): [docs, ret, changed]
ClearResult(docs) ==
    [docs |-> <<>>,
     changed |-> Len(docs) > 0,
     ret |-> Obj([numRemoved |-> Num(Len(docs))])]

----------------------------------------------------------------------------
(* What callers pass in *)

CollNames == {"users", "posts"}

\* name.trim() of the names given to db.collection
Trim(name) ==
    CASE name = " Posts " -> "Posts"
      [] name = "  " -> ""
      [] OTHER -> name

\* name.trim(), without the change of case
TrimOnly(name) == Trim(name)

\* name.trim().toLowerCase() of the names given to db.collection
TrimLower(name) ==
    CASE name = "Users" -> "users"
      [] name = " Posts " -> "posts"
      [] OTHER -> name

StorePaths ==
    { <<"a">>, <<"a", "b">>, <<"a", "b", "c">>,
      <<DB_STORAGE_KEY>>, <<DB_STORAGE_KEY, "users">> }
StoreValues == { Num(1), Obj([b |-> Num(2)]) }
Defaults == { Undef, Num(0) }

\* what generateId() may return: Date.now() and Math.random() in base 36, a
\* non-empty string that nothing keeps from repeating
GenIds == {"g1", "g2"}

DocA == Obj([name |-> Str("A")])
DocZero == Obj([_id |-> Num(0), name |-> Str("A")])
DocEmptyId == Obj([_id |-> Str(""), name |-> Undef])
DocTags == Obj([name |-> Str("A"), tags |-> Arr(<<Str("js")>>)])

InsertArgs ==
    { DocA, DocZero, DocEmptyId, Num(123), Str("x"), Null, Undef,
      Arr(<<>>), Arr(<<DocA, Num(123), DocZero>>), Arr(<<Null>>), Arr(<<Arr(<<Num(1)>>)>>) }

\* generateId() is called for this entry of insert
NeedsId(entry) == IsObject(entry) /\ PropOf(Obj(Spread(entry)), "_id").t = "undef"

\* the results of the generateId() calls of insert(docOrArray), by entry
GenChoices(docOrArray) ==
    LET toInsert == IF docOrArray.t = "arr" THEN docOrArray.e ELSE <<docOrArray>>
    IN { g \in [1..Len(toInsert) -> GenIds] :
            \A i \in 1..Len(toInsert) : ~NeedsId(toInsert[i]) => g[i] = "g1" }

Queries ==
    { Undef, Obj(EmptyMap), Obj([name |-> Str("A")]), Obj([name |-> Str("B")]),
      Obj([name |-> Undef]), Obj([name |-> Str("A"), _id |-> Num(0)]),
      Obj([name |-> Arr(<<>>)]) }

UpdateQueries == { Obj(EmptyMap), Obj([name |-> Str("A")]) }
UpdateDatas == { Obj([name |-> Str("B")]), Obj([_id |-> Num(7)]) }

\* what .envjs-store.json may hold when the process starts
SnapshotWithUsers ==
    Obj([__dbCollections__ |->
            Obj([users |-> Arr(<<Obj([_id |-> Str("g1"), name |-> Str("A")])>>)])])

\* what callers pass to db.collection
NameArgs ==
    { Str("users"), Str("Users"), Str(" Posts "), Str(""), Str("  "),
      Num(5), Null, Undef }

InitialDisks ==
    { Absent, Garbage, Null, Num(5), Obj([a |-> Obj([b |-> Num(1)])]), SnapshotWithUsers }

----------------------------------------------------------------------------
(* The other modules of an instance: their state before any call *)

\* scheduler: _timers = {}, no timer of the runtime running; next numbers the
\* timers setInterval and setTimeout create, stopped and fired are the history
\* of the timers that were cleared and of those whose callback ran
SchedulerInit == [timers |-> EmptyMap, active |-> {}, next |-> 1, stopped |-> {}]
\* the functions every instance has: module name, function name
MockKeys == { <<"os", "platform">>, <<"process", "cwd">> }
Insts == {1, 2}
\* the function object that instance inst creates for key
Orig(inst, key) == <<"original", inst, key>>
\* mock: originalModules = {} and mockedFunctions = {}, which all instances
\* share, and the functions in the modules object of each instance
MockInit ==
    [originals |-> EmptyMap, mocked |-> EmptyMap,
     fns |-> [i \in Insts |-> [k \in MockKeys |-> Orig(i, k)]]]
\* modules: the own properties of the object literal of envjs(), two of the
\* built-in modules standing for all
RegistryInit ==
    [modules |-> [n \in {"file", "store"} |-> Obj([builtin |-> Str(n)])]]
\* cli: const commands = {}, defaultCommand = null, parsedArgsCache = null
CliInit == [commands |-> EmptyMap, defaultCommand |-> "none", parsedArgsCache |-> Null]
\* server: serverInstance = null (0), isListening = false; servers are the
\* http servers created so far, closing the ones whose close() is under way
ServerInit == [serverInstance |-> 0, isListening |-> FALSE, servers |-> EmptyMap,
               closing |-> {}, crashed |-> FALSE]
\* watcher: activeWatchers = new Map(), nextWatcherId = 1; watchers are the
\* closures of the watch calls so far, closed the ids whose close() or
\* closeAll() has returned
WatcherInit == [activeWatchers |-> {}, nextWatcherId |-> 1, watchers |-> EmptyMap,
                closed |-> {}]

NoModuleCall ==
    [op |-> "none", id |-> "", arg |-> Undef, ret |-> Undef, h |-> 0, cb |-> "",
     inst |-> 0, key |-> <<>>, threw |-> FALSE]

----------------------------------------------------------------------------
(* State *)

NoCall ==
    [op |-> "none", coll |-> "", path |-> <<>>, arg |-> Undef, arg2 |-> Undef,
     fn |-> NoFn, multi |-> FALSE, upsert |-> FALSE,
     ret |-> Undef, writes |-> 0, threw |-> FALSE, before |-> 0, matched |-> 0,
     again |-> FALSE, refs |-> {}, from |-> "none"]

\* q is p or a path that p extends
IsPrefix(q, p) == Len(q) <= Len(p) /\ q = SubSeq(p, 1, Len(q))

\* keyPath leads to a value in root
Resolves(root, keyPath) ==
    StoreGetValue(root, keyPath, Undef) = StoreGetValue(root, keyPath, Null)

\* the other modules at the start of the process
InitModules ==
    /\ scheduler = SchedulerInit
    /\ mock = MockInit
    /\ registry = RegistryInit
    /\ cli = CliInit
    /\ server = ServerInit
    /\ watcher = WatcherInit
    /\ call = NoModuleCall

InitFrom(disks, track) ==
    /\ disk \in disks
    /\ storeData = Obj(EmptyMap)
    /\ phase = "boot"
    /\ cache = {}
    /\ attached = [n \in CollNames |-> FALSE]
    /\ detached = [n \in CollNames |-> <<>>]
    /\ writeFailed = FALSE
    /\ last = NoCall
    /\ hist = [track |-> track, written |-> {}, live |-> {}]
    /\ InitModules

\* the process starts without a snapshot file
InitDb == InitFrom({Absent}, FALSE)

\* the module-level load of the snapshot; readOk: existsSync and readFileSync
\* did not throw, writeOk: the writeFileSync of a missing file did not throw
LoadStore(readOk, writeOk) ==
    /\ UNCHANGED moduleVars
    /\ phase = "boot"
    /\ phase' = "loaded"
    /\ IF readOk /\ disk = Absent
       THEN /\ storeData' = Obj(EmptyMap)
            /\ disk' \in IF writeOk THEN {JsonValue(Obj(EmptyMap))} ELSE {disk, Garbage}
            /\ writeFailed' = ~writeOk
       ELSE /\ writeOk
            /\ storeData' = IF readOk /\ disk # Garbage THEN disk ELSE Obj(EmptyMap)
            /\ UNCHANGED <<disk, writeFailed>>
    /\ hist' = IF hist.track
               THEN [hist EXCEPT !.live = {p \in StorePaths : Resolves(storeData', p)}]
               ELSE hist
    /\ UNCHANGED <<cache, attached, detached, last>>

\* initializeDbStore(): [threw, root]
initializeDbStore(root) ==
    IF root.t \in {"undef", "null"}
    THEN [threw |-> TRUE, root |-> root]          \* TypeError reading a property of null
    ELSE IF ~Truthy(PropOf(root, DB_STORAGE_KEY)) \/ ~IsObject(PropOf(root, DB_STORAGE_KEY))
    THEN IF ~IsObject(root)
         THEN [threw |-> TRUE, root |-> root]     \* TypeError assigning on a primitive
         ELSE [threw |-> FALSE, root |-> Assign(root, DB_STORAGE_KEY, Obj(EmptyMap))]
    ELSE [threw |-> FALSE, root |-> root]

\* envjs(): the db module is defined and initializeDbStore() runs
Envjs ==
    /\ UNCHANGED moduleVars
    /\ phase = "loaded"
    /\ LET r == initializeDbStore(storeData)
       IN /\ phase' = IF r.threw THEN "crashed" ELSE "ready"
          /\ storeData' = r.root
          /\ last' = [NoCall EXCEPT !.op = "envjs", !.threw = r.threw]
    /\ UNCHANGED <<disk, cache, attached, detached, writeFailed, hist>>

\* this.documents of the handle called name, in the state (root, att, det)
DocsOf(root, att, det, name) ==
    IF att[name]
    THEN root.f[DB_STORAGE_KEY].f[name].e
    ELSE det[name]

Docs(name) == DocsOf(storeData, attached, detached, name)

\* the assignment of docs that leaves the other collections empty
WithDocsResetsOthers(root, name, docs) ==
    Assign(root, DB_STORAGE_KEY,
           Obj([k \in DOMAIN root.f[DB_STORAGE_KEY].f \cup {name} |->
                   IF k = name THEN Arr(docs) ELSE Arr(<<>>)]))

\* root with the array under the collections key for name holding docs
WithDocs(root, name, docs) ==
    Assign(root, DB_STORAGE_KEY, Assign(root.f[DB_STORAGE_KEY], name, Arr(docs)))

\* the constructor of Collection: the root after it
NewCollection(root, name) ==
    LET r == initializeDbStore(root).root
        slot == PropOf(PropOf(r, DB_STORAGE_KEY), name)
    IN IF ~Truthy(slot) \/ slot.t # "arr"
       THEN WithDocs(r, name, <<>>)
       ELSE r

\* typeof name !== 'string' || !name.trim()
InvalidName(name) == name.t # "str" \/ Trim(name.s) = ""

\* db.collection(name), name being any value
GetCollection(name) ==
    /\ UNCHANGED moduleVars
    /\ phase = "ready"
    /\ IF InvalidName(name)
       THEN /\ last' = [NoCall EXCEPT !.op = "collection", !.arg = name, !.threw = TRUE]
            /\ UNCHANGED <<storeData, cache, attached>>
       ELSE LET collectionName == TrimLower(name.s)
            IN /\ IF collectionName \in cache
                  THEN UNCHANGED <<storeData, cache, attached>>
                  ELSE /\ storeData' = NewCollection(storeData, collectionName)
                       /\ cache' = cache \cup {collectionName}
                       /\ attached' = [attached EXCEPT ![collectionName] = TRUE]
               /\ last' = [NoCall EXCEPT !.op = "collection", !.coll = collectionName,
                                         !.arg = name,
                                         !.before = IF collectionName \in cache
                                                    THEN 1 ELSE 0]
    /\ UNCHANGED <<disk, phase, detached, writeFailed, hist>>

----------------------------------------------------------------------------
(* store actions *)

\* the array of handle name lies at keyPath or below it in storeData
Covers(keyPath, name) ==
    /\ attached[name]
    /\ Len(keyPath) <= 2
    /\ keyPath = SubSeq(<<DB_STORAGE_KEY, name>>, 1, Len(keyPath))

\* the handles whose array a write at keyPath takes out of storeData keep it
Detach(keyPath) ==
    /\ attached' = [n \in CollNames |-> attached[n] /\ ~Covers(keyPath, n)]
    /\ detached' = [n \in CollNames |-> IF Covers(keyPath, n) THEN Docs(n) ELSE detached[n]]

StoreGet(keyPath, defaultValue) ==
    /\ UNCHANGED moduleVars
    /\ phase = "ready"
    /\ last' = [NoCall EXCEPT !.op = "get", !.path = keyPath, !.arg2 = defaultValue,
                              !.ret = StoreGetValue(storeData, keyPath, defaultValue),
                              !.refs = StoreGetRefs(storeData, keyPath, defaultValue)]
    /\ UNCHANGED <<disk, storeData, phase, cache, attached, detached, writeFailed, hist>>

StoreSet(keyPath, value, writeOk) ==
    /\ UNCHANGED moduleVars
    /\ phase = "ready"
    /\ ~ArrayOnPath(storeData, keyPath)
    /\ LET r == StoreSetResult(storeData, keyPath, value)
       IN /\ storeData' = r.value
          /\ IF r.ok
             THEN /\ disk' \in saveStore(r.value, disk, writeOk)
                  /\ writeFailed' = ~writeOk
                  /\ Detach(keyPath)
             ELSE /\ writeOk
                  /\ UNCHANGED <<disk, writeFailed, attached, detached>>
          /\ last' = [NoCall EXCEPT !.op = "set", !.path = keyPath, !.arg = value,
                                    !.writes = IF r.ok THEN 1 ELSE 0]
    /\ hist' = IF hist.track
               THEN [hist EXCEPT
                       !.written = @ \cup {keyPath},
                       !.live = @ \cup {p \in StorePaths :
                                           IsPrefix(p, keyPath) \/ IsPrefix(keyPath, p)}]
               ELSE hist
    /\ UNCHANGED <<phase, cache>>

StoreDelete(keyPath, writeOk) ==
    /\ UNCHANGED moduleVars
    /\ phase = "ready"
    /\ ~ArrayOnPath(storeData, keyPath)
    /\ LET r == StoreDeleteResult(storeData, keyPath)
       IN /\ storeData' = r.value
          /\ IF r.ok
             THEN /\ disk' \in saveStore(r.value, disk, writeOk)
                  /\ writeFailed' = ~writeOk
                  /\ Detach(keyPath)
             ELSE /\ writeOk
                  /\ UNCHANGED <<disk, writeFailed, attached, detached>>
          /\ last' = [NoCall EXCEPT !.op = "delete", !.path = keyPath,
                                    !.writes = IF r.ok THEN 1 ELSE 0]
    /\ hist' = IF hist.track
               THEN [hist EXCEPT
                       !.written = @ \ {keyPath},
                       !.live = @ \ {p \in StorePaths : IsPrefix(keyPath, p)}]
               ELSE hist
    /\ UNCHANGED <<phase, cache>>

StoreAll ==
    /\ UNCHANGED moduleVars
    /\ phase = "ready"
    /\ last' = [NoCall EXCEPT !.op = "all", !.ret = JsonValue(storeData),
                              !.refs = StoreAllRefs(storeData)]
    /\ UNCHANGED <<disk, storeData, phase, cache, attached, detached, writeFailed, hist>>

\* the caller changes in place the object or array at the path m of the value
\* the last call returned; where that object is a stored one, the store
\* changes with it, and nothing is saved
MutateReturned(m) ==
    /\ UNCHANGED moduleVars
    /\ phase = "ready"
    /\ last.op \in {"get", "all", "insert", "find", "findOne", "update"}
    /\ m \in StructPaths(last.ret)
    /\ last' = [last EXCEPT !.op = "mutate", !.from = last.op,
                            !.ret = WriteAt(@, m, MutateInPlace(ReadAt(@, m)))]
    /\ storeData' =
          IF \E r \in last.refs : IsPrefix(r.at, m)
          THEN LET r == CHOOSE x \in last.refs : IsPrefix(x.at, m)
                   target == r.loc \o SubSeq(m, Len(r.at) + 1, Len(m))
               IN WriteAt(storeData, target, MutateInPlace(ReadAt(storeData, target)))
          ELSE storeData
    /\ UNCHANGED <<disk, phase, cache, attached, detached, writeFailed, hist>>

----------------------------------------------------------------------------
(* Collection actions, on the handle db.collection returned for name *)

\* the documents all handles hold together
TotalDocs == Len(Docs("users")) + Len(Docs("posts"))

\* _save() that puts the documents back when the write of the snapshot fails
CommitRollsBack(name, docs, save, writeOk) ==
    /\ UNCHANGED moduleVars
    /\ IF save /\ ~writeOk
       THEN UNCHANGED <<storeData, detached>>
       ELSE IF attached[name]
       THEN /\ storeData' = WithDocs(storeData, name, docs)
            /\ UNCHANGED detached
       ELSE /\ detached' = [detached EXCEPT ![name] = docs]
            /\ UNCHANGED storeData
    /\ IF save
       THEN /\ disk' \in saveStore(storeData', disk, writeOk)
            /\ writeFailed' = ~writeOk
       ELSE /\ writeOk
            /\ UNCHANGED <<disk, writeFailed>>
    /\ UNCHANGED <<phase, cache, attached, hist>>

\* this.documents becomes docs in place and _save() runs if save
Commit(name, docs, save, writeOk) ==
    /\ UNCHANGED moduleVars
    /\ IF attached[name]
       THEN /\ storeData' = WithDocs(storeData, name, docs)
            /\ UNCHANGED detached
       ELSE /\ detached' = [detached EXCEPT ![name] = docs]
            /\ UNCHANGED storeData
    /\ IF save
       THEN /\ disk' \in saveStore(storeData', disk, writeOk)
            /\ writeFailed' = ~writeOk
       ELSE /\ writeOk
            /\ UNCHANGED <<disk, writeFailed>>
    /\ UNCHANGED <<phase, cache, attached, hist>>

Insert(name, docOrArray, gen, writeOk) ==
    /\ phase = "ready" /\ name \in cache
    /\ \E r \in {InsertResult(Docs(name), docOrArray, gen)} :
          /\ TotalDocs - Len(Docs(name)) + Len(r.docs) <= MaxDocs
          /\ Commit(name, r.docs, r.changed, writeOk)
          /\ last' = [NoCall EXCEPT !.op = "insert", !.coll = name, !.arg = docOrArray,
                                    !.ret = r.ret, !.before = Len(Docs(name)),
                                    !.refs = InsertRefs(Docs(name), docOrArray, name),
                                    !.writes = IF r.changed THEN 1 ELSE 0]

Find(name, query) ==
    /\ UNCHANGED moduleVars
    /\ phase = "ready" /\ name \in cache
    /\ last' = [NoCall EXCEPT !.op = "find", !.coll = name, !.arg = query,
                              !.ret = FindResult(Docs(name), query),
                              !.refs = FindRefs(Docs(name), query, name)]
    /\ UNCHANGED <<disk, storeData, phase, cache, attached, detached, writeFailed, hist>>

FindOne(name, query) ==
    /\ UNCHANGED moduleVars
    /\ phase = "ready" /\ name \in cache
    /\ last' = [NoCall EXCEPT !.op = "findOne", !.coll = name, !.arg = query,
                              !.ret = FindOneResult(Docs(name), query),
                              !.refs = FindOneRefs(Docs(name), query, name)]
    /\ UNCHANGED <<disk, storeData, phase, cache, attached, detached, writeFailed, hist>>

Count(name, query) ==
    /\ UNCHANGED moduleVars
    /\ phase = "ready" /\ name \in cache
    /\ last' = [NoCall EXCEPT !.op = "count", !.coll = name, !.arg = query,
                              !.ret = CountResult(Docs(name), query)]
    /\ UNCHANGED <<disk, storeData, phase, cache, attached, detached, writeFailed, hist>>

\* the call about to be made repeats the previous call, an upsert that had
\* matched no document
RepeatsUpsert(name, query, updateData, fn, multi, upsert) ==
    /\ last.op = "update" /\ last.upsert /\ last.matched = 0 /\ ~last.threw
    /\ last.coll = name /\ last.arg = query /\ last.arg2 = updateData
    /\ last.fn = fn /\ last.multi = multi /\ last.upsert = upsert

Update(name, query, updateData, fn, multi, upsert, id, writeOk) ==
    /\ phase = "ready" /\ name \in cache
    /\ \E r \in {UpdateResult(Docs(name), query, updateData, fn, multi, upsert, id)} :
          /\ TotalDocs - Len(Docs(name)) + Len(r.docs) <= MaxDocs
          /\ Commit(name, r.docs, r.changed, writeOk)
          /\ last' = [NoCall EXCEPT !.op = "update", !.coll = name, !.arg = query,
                                    !.arg2 = updateData, !.fn = fn,
                                    !.multi = multi, !.upsert = upsert,
                                    !.ret = r.ret, !.threw = r.threw,
                                    !.before = Len(Docs(name)),
                                    !.matched = Len(FilterMatches(Docs(name), query)),
                                    !.again = RepeatsUpsert(name, query, updateData, fn,
                                                            multi, upsert),
                                    !.refs = IF r.threw THEN {}
                                             ELSE UpdateRefs(Docs(name), query, multi,
                                                             upsert, name),
                                    !.writes = IF r.changed THEN 1 ELSE 0]

Remove(name, query, multi, writeOk) ==
    /\ phase = "ready" /\ name \in cache
    /\ \E r \in {RemoveResult(Docs(name), query, multi)} :
          /\ Commit(name, r.docs, r.changed, writeOk)
          /\ last' = [NoCall EXCEPT !.op = "remove", !.coll = name, !.arg = query,
                                    !.multi = multi, !.ret = r.ret,
                                    !.before = Len(Docs(name)),
                                    !.matched = Len(FilterMatches(Docs(name), query)),
                                    !.writes = IF r.changed THEN 1 ELSE 0]

Clear(name, writeOk) ==
    /\ phase = "ready" /\ name \in cache
    /\ \E r \in {ClearResult(Docs(name))} :
          /\ Commit(name, r.docs, r.changed, writeOk)
          /\ last' = [NoCall EXCEPT !.op = "clear", !.coll = name, !.ret = r.ret,
                                    !.before = Len(Docs(name)),
                                    !.writes = IF r.changed THEN 1 ELSE 0]

----------------------------------------------------------------------------
(* Specification of the path store, with the history of its calls *)

InitStore ==
    InitFrom({Absent, Obj([a |-> Obj([b |-> Num(1)])]), SnapshotWithUsers}, TRUE)

NextStore ==
    \/ \E readOk \in BOOLEAN : LoadStore(readOk, TRUE)
    \/ Envjs
    \/ GetCollection(Str("users"))
    \/ \E keyPath \in StorePaths, d \in Defaults : StoreGet(keyPath, d)
    \/ \E keyPath \in StorePaths, v \in StoreValues : StoreSet(keyPath, v, TRUE)
    \/ \E keyPath \in StorePaths : StoreDelete(keyPath, TRUE)
    \/ Insert("users", DocA, [i \in 1..1 |-> "g1"], TRUE)
    \/ Clear("users", TRUE)

SpecStore == InitStore /\ [][NextStore]_vars

----------------------------------------------------------------------------
(* Specification of the store and a collection together *)

Init == InitFrom(InitialDisks, FALSE)

Next ==
    \/ \E readOk \in BOOLEAN : LoadStore(readOk, TRUE)
    \/ Envjs
    \/ \E name \in {"users", "Users"} : GetCollection(Str(name))
    \/ \E keyPath \in StorePaths, v \in StoreValues : StoreSet(keyPath, v, TRUE)
    \/ \E keyPath \in StorePaths : StoreDelete(keyPath, TRUE)
    \/ \E d \in {DocA, Num(123)} : Insert("users", d, [i \in 1..1 |-> "g1"], TRUE)
    \/ \E upsert \in BOOLEAN :
          Update("users", Obj(EmptyMap), Obj([name |-> Str("B")]), NoFn, FALSE, upsert,
                 "g1", TRUE)
    \/ Remove("users", Obj(EmptyMap), FALSE, TRUE)
    \/ Clear("users", TRUE)

Spec == Init /\ [][Next]_vars

----------------------------------------------------------------------------
(* Specification of the calls whose write of the snapshot can fail *)

NextWrites ==
    \/ \E writeOk \in BOOLEAN : LoadStore(TRUE, writeOk)
    \/ Envjs
    \/ GetCollection(Str("users"))
    \/ \E writeOk \in BOOLEAN : StoreSet(<<"a">>, Num(1), writeOk)
    \/ \E writeOk \in BOOLEAN : StoreDelete(<<"a">>, writeOk)
    \/ StoreGet(<<"a">>, Undef)
    \/ \E writeOk \in BOOLEAN : Insert("users", DocA, [i \in 1..1 |-> "g1"], writeOk)
    \/ Count("users", Obj(EmptyMap))
    \/ \E upsert, writeOk \in BOOLEAN :
          Update("users", Obj(EmptyMap), Obj([name |-> Str("B")]), NoFn, FALSE, upsert,
                 "g1", writeOk)
    \/ \E writeOk \in BOOLEAN : Remove("users", Obj(EmptyMap), FALSE, writeOk)
    \/ \E writeOk \in BOOLEAN : Clear("users", writeOk)

SpecWrites == InitDb /\ [][NextWrites]_vars

----------------------------------------------------------------------------
(* Specification of update with a transform that returns no object *)

NextFns ==
    \/ LoadStore(TRUE, TRUE)
    \/ Envjs
    \/ GetCollection(Str("users"))
    \/ \E d \in {DocA, DocZero} : Insert("users", d, [i \in 1..1 |-> "g1"], TRUE)
    \/ \E fn \in NonObjectFns, multi \in BOOLEAN, upsert \in BOOLEAN :
          Update("users", Obj(EmptyMap), Undef, fn, multi, upsert, "g1", TRUE)
    \/ Count("users", Obj(EmptyMap))
    \/ Clear("users", TRUE)

SpecFns == InitDb /\ [][NextFns]_vars

----------------------------------------------------------------------------
(* Specification of two collections beside a key of the path store *)

NextFrame ==
    \/ LoadStore(TRUE, TRUE)
    \/ Envjs
    \/ \E name \in CollNames : GetCollection(Str(name))
    \/ StoreSet(<<"a">>, Num(1), TRUE)
    \/ \E name \in CollNames : Insert(name, DocA, [i \in 1..1 |-> "g1"], TRUE)
    \/ \E name \in CollNames, q \in UpdateQueries, multi \in BOOLEAN, upsert \in BOOLEAN :
          Update(name, q, Obj([name |-> Str("B")]), NoFn, multi, upsert, "g2", TRUE)
    \/ \E name \in CollNames, q \in UpdateQueries, multi \in BOOLEAN :
          Remove(name, q, multi, TRUE)
    \/ \E name \in CollNames : Clear(name, TRUE)

SpecFrame == InitDb /\ [][NextFrame]_vars

----------------------------------------------------------------------------
(* Specification of the mutations of a collection *)

NextDb ==
    \/ LoadStore(TRUE, TRUE)
    \/ Envjs
    \/ \E name \in {"users", "Users"} : GetCollection(Str(name))
    \/ \E d \in {DocA, DocZero} : \E gen \in GenChoices(d) : Insert("users", d, gen, TRUE)
    \/ \E q \in UpdateQueries, multi \in BOOLEAN, upsert \in BOOLEAN :
          \E id \in IF upsert /\ FilterMatches(Docs("users"), q) = <<>>
                     THEN GenIds ELSE {"g1"} :
             \/ \E data \in UpdateDatas :
                   Update("users", q, data, NoFn, multi, upsert, id, TRUE)
             \/ \E fn \in UpdateFns :
                   Update("users", q, Undef, fn, multi, upsert, id, TRUE)
    \/ \E q \in UpdateQueries, multi \in BOOLEAN : Remove("users", q, multi, TRUE)
    \/ Clear("users", TRUE)

SpecDb == InitDb /\ [][NextDb]_vars

----------------------------------------------------------------------------
(* Specification of the reads of a collection *)

NextQuery ==
    \/ LoadStore(TRUE, TRUE)
    \/ Envjs
    \/ \E name \in {"users", "Users"} : GetCollection(Str(name))
    \/ \E d \in InsertArgs : \E gen \in GenChoices(d) : Insert("users", d, gen, TRUE)
    \/ \E q \in Queries : Find("users", q)
    \/ \E q \in Queries : FindOne("users", q)
    \/ \E q \in Queries : Count("users", q)

SpecQuery == InitDb /\ [][NextQuery]_vars

----------------------------------------------------------------------------
(* Specification of the names of collections *)

NextNames ==
    \/ LoadStore(TRUE, TRUE)
    \/ Envjs
    \/ \E name \in NameArgs : GetCollection(name)
    \/ \E name \in CollNames, d \in {DocA, DocZero} :
          Insert(name, d, [i \in 1..1 |-> "g1"], TRUE)
    \/ \E name \in CollNames : Count(name, Obj(EmptyMap))
    \/ \E name \in CollNames : Clear(name, TRUE)

SpecNames == InitDb /\ [][NextNames]_vars

----------------------------------------------------------------------------
(* Specification of what callers do to the values they are handed *)

NestedValue == Obj([b |-> Obj([c |-> Num(2)])])

NextAlias ==
    \/ LoadStore(TRUE, TRUE)
    \/ Envjs
    \/ GetCollection(Str("users"))
    \/ StoreSet(<<"a">>, NestedValue, TRUE)
    \/ \E keyPath \in {<<"a">>, <<"a", "b">>, <<"a", "b", "c">>} : StoreGet(keyPath, Undef)
    \/ StoreAll
    \/ \E d \in {DocTags, Arr(<<DocTags>>)} :
          Insert("users", d, [i \in 1..1 |-> "g1"], TRUE)
    \/ Find("users", Obj(EmptyMap))
    \/ FindOne("users", Obj([name |-> Str("A")]))
    \/ \E upsert \in BOOLEAN :
          Update("users", Obj([name |-> Str("A")]), Obj([name |-> Str("B")]), NoFn,
                 FALSE, upsert, "g1", TRUE)
    \/ \E m \in StructPaths(last.ret) : MutateReturned(m)

SpecAlias == InitDb /\ [][NextAlias]_vars

TypeOK == phase \in {"boot", "loaded", "ready", "crashed"}

----------------------------------------------------------------------------
(* The path store: C1 - C4 *)

ScalarPrefix(root, keyPath) ==
    \E k \in 1..(Len(keyPath) - 1) :
        /\ Resolves(root, SubSeq(keyPath, 1, k))
        /\ ~IsObject(StoreGetValue(root, SubSeq(keyPath, 1, k), Undef))

\* C2: a store.set whose path runs through an existing scalar changes neither
\* the in-memory root nor the snapshot and performs no write.
C2_SetThroughScalarMutatesNothing ==
    [][(last'.op = "set" /\ ScalarPrefix(storeData, last'.path))
         => (storeData' = storeData /\ disk' = disk /\ last'.writes = 0)]_vars

Mutators == {"set", "delete", "insert", "update", "remove", "clear"}

ReportsChange ==
    CASE last.op = "set" -> TRUE
      [] last.op = "insert" -> IF last.ret.t = "arr" THEN last.ret.e # <<>>
                               ELSE last.ret.t # "null"
      [] last.op = "update" -> ~last.threw /\ last.ret.f.updatedCount.n > 0
      [] last.op = "remove" -> last.ret.f.removedCount.n > 0
      [] last.op = "clear" -> last.ret.f.numRemoved.n > 0
      [] OTHER -> FALSE

----------------------------------------------------------------------------
(* Collections, update and remove: C5 - C7 *)

\* this.documents of the handle the call was made on, before and after it
DocsBefore == Docs(last'.coll)
DocsAfter == DocsOf(storeData', attached', detached', last'.coll)

\* the index of the first document of docs that matches query
LowestMatch(docs, query) ==
    CHOOSE i \in 1..Len(docs) :
        /\ matchesQuery(docs[i], query)
        /\ \A j \in 1..(i - 1) : ~matchesQuery(docs[j], query)

\* C5: with several matches, update(query, data) and remove(query) without
\* options.multi affect one document, the lowest-index match, the one that
\* findOne(query) returns just before the call.
C5_SingleAffectsLowestMatch ==
    [][(/\ last'.op \in {"update", "remove"}
        /\ ~last'.multi /\ ~last'.threw /\ last'.matched >= 2)
         => LET i == LowestMatch(DocsBefore, last'.arg)
            IN /\ JsonValue(DocsBefore[i]) = FindOneResult(DocsBefore, last'.arg)
               /\ IF last'.op = "remove"
                  THEN DocsAfter = Splice(DocsBefore, i)
                  ELSE /\ Len(DocsAfter) = Len(DocsBefore)
                       /\ \A j \in 1..Len(DocsBefore) :
                             j # i => DocsAfter[j] = DocsBefore[j]]_vars

\* C6: update leaves the _id of every document that was stored before it as
\* it was, whatever its value, for an object payload and for a transform.
C6_UpdateKeepsEveryId ==
    [][(last'.op = "update" /\ ~last'.threw)
         => /\ Len(DocsAfter) >= Len(DocsBefore)
            /\ \A j \in 1..Len(DocsBefore) :
                  PropOf(DocsAfter[j], "_id") = PropOf(DocsBefore[j], "_id")]_vars

----------------------------------------------------------------------------
(* Collections, reads and insert: C8 - C10 *)

\* the fields a query names
QueryFields(query) ==
    IF Truthy(query) /\ IsObject(query) THEN DOMAIN Spread(query) ELSE {}

\* every field that query names is present on doc and strictly equal there
PresentAndEqual(doc, query) ==
    \A key \in QueryFields(query) :
        Has(doc, key) /\ StrictEq(PropOf(doc, key), Spread(query)[key])

\* every field that query names reads strictly equal on doc
ReadsEqual(doc, query) ==
    \A key \in QueryFields(query) : StrictEq(PropOf(doc, key), Spread(query)[key])

C9_InsertAssignsOrKeepsId ==
    (last.op = "insert" /\ last.arg.t = "obj") =>
        LET docs == Docs(last.coll)
            stored == docs[Len(docs)]
            given == PropOf(last.arg, "_id")
        IN /\ Len(docs) = last.before + 1
           /\ IF given.t = "undef"
              THEN /\ PropOf(stored, "_id").t = "str"
                   /\ PropOf(stored, "_id").s # ""
              ELSE PropOf(stored, "_id") = given
           /\ DOMAIN stored.f = DOMAIN last.arg.f \cup {"_id"}
           /\ \A k \in DOMAIN last.arg.f \ {"_id"} : stored.f[k] = last.arg.f[k]
           /\ last.ret = JsonValue(stored)
           /\ PropOf(last.ret, "_id") = PropOf(stored, "_id")

\* a document given with the _id 0 was stored and returned with the _id 0
C9_Witness ==
    /\ last.op = "insert" /\ last.arg = DocZero
    /\ PropOf(last.ret, "_id") = Num(0)
    /\ Docs("users")[Len(Docs("users"))] = DocZero

\* the entries of insert(docOrArray) that are accepted
Accepted(docOrArray) ==
    SelectSeq(IF docOrArray.t = "arr" THEN docOrArray.e ELSE <<docOrArray>>,
              LAMBDA e : IsObject(e))

----------------------------------------------------------------------------
(* Collections, update with an object payload: C11 *)

\* the shallow merge of the payload onto the document, the payload's fields
\* winning
ShallowMerge(doc, payload) == Obj(Merge(Spread(JsonValue(doc)), Spread(payload)))

\* the shallow merge, but for the _id of a document whose _id is truthy
MergeKeepingId(doc, payload) ==
    IF Truthy(PropOf(doc, "_id"))
    THEN Obj(Put(ShallowMerge(doc, payload).f, "_id", PropOf(doc, "_id")))
    ELSE ShallowMerge(doc, payload)

\* the indices of the documents of docs that match query
MatchingIndices(docs, query) == {j \in 1..Len(docs) : matchesQuery(docs[j], query)}

\* an update with an object payload on a query that matches replaces the
\* affected documents by M(document, payload), returns their number and their
\* copies and writes the snapshot once
PayloadUpdateReplacesBy(M(_, _)) ==
    (last'.op = "update" /\ last'.fn = NoFn /\ ~last'.threw /\ last'.matched > 0)
        => LET hit == MatchingIndices(DocsBefore, last'.arg)
               updatedDocs == last'.ret.f.updatedDocs.e
           IN /\ Len(DocsAfter) = Len(DocsBefore)
              /\ Len(updatedDocs) = last'.ret.f.updatedCount.n
              /\ last'.writes = 1
              /\ disk' = JsonValue(storeData')
              /\ IF last'.multi
                 THEN /\ \A j \in 1..Len(DocsBefore) :
                            DocsAfter[j] = (IF j \in hit
                                            THEN M(DocsBefore[j], last'.arg2)
                                            ELSE DocsBefore[j])
                      /\ last'.ret.f.updatedCount.n = last'.matched
                      /\ Cardinality(hit) = last'.matched
                      /\ \A j \in hit : \E k \in 1..Len(updatedDocs) :
                            updatedDocs[k] = JsonValue(DocsAfter[j])
                 ELSE /\ last'.ret.f.updatedCount.n = 1
                      /\ \E i \in hit :
                            /\ DocsAfter[i] = M(DocsBefore[i], last'.arg2)
                            /\ updatedDocs[1] = JsonValue(DocsAfter[i])
                            /\ \A j \in 1..Len(DocsBefore) :
                                  j # i => DocsAfter[j] = DocsBefore[j]

\* C11 as stated: update with an object payload replaces each affected
\* document by the shallow merge of the document and the payload, the payload's
\* fields winning; with multi every match is so updated, the count is the
\* number of matches, with one copy each and one snapshot write.
C11_UpdateIsShallowMerge == [][PayloadUpdateReplacesBy(ShallowMerge)]_vars

\* C11 amended: as stated, except that the _id of a document whose _id is
\* truthy is kept whatever _id the payload carries.
C11_UpdateMergesButKeepsId == [][PayloadUpdateReplacesBy(MergeKeepingId)]_vars

\* update({}, {_id: 7}, {multi: true}) ran on two documents with generated
\* ids, which both kept theirs
C11_Witness ==
    /\ last.op = "update" /\ last.multi /\ last.matched = 2 /\ last.fn = NoFn
    /\ last.arg2 = Obj([_id |-> Num(7)])
    /\ last.ret.f.updatedCount = Num(2)
    /\ \A j \in 1..2 : PropOf(Docs("users")[j], "_id").t = "str"

----------------------------------------------------------------------------
(* Collections, remove and clear: C12 - C13 *)

\* C12: remove with multi deletes every matching document, so that
\* count(query) is 0 afterwards; without multi it deletes one document when
\* one matches; the collection shrinks by the returned removedCount and the
\* snapshot is written iff removedCount is positive.
C12_RemoveCountsWhatItDeletes ==
    [][last'.op = "remove"
         => LET n == last'.ret.f.removedCount.n
                hit == MatchingIndices(DocsBefore, last'.arg)
            IN /\ Len(DocsAfter) = Len(DocsBefore) - n
               /\ IF last'.multi
                  THEN /\ n = Cardinality(hit)
                       /\ DocsAfter = SelectSeq(DocsBefore,
                                                LAMBDA d : ~matchesQuery(d, last'.arg))
                       /\ CountResult(DocsAfter, last'.arg) = Num(0)
                  ELSE /\ n = (IF hit # {} THEN 1 ELSE 0)
                       /\ hit # {} => \E i \in hit : DocsAfter = Splice(DocsBefore, i)
               /\ last'.writes = (IF n > 0 THEN 1 ELSE 0)
               /\ n > 0 => disk' = JsonValue(storeData')
               /\ n = 0 => (disk' = disk /\ DocsAfter = DocsBefore)]_vars

\* remove({name: 'A'}, {multi: true}) deleted the two documents of the
\* collection, which both matched
C12_Witness ==
    /\ last.op = "remove" /\ last.multi /\ last.arg = Obj([name |-> Str("A")])
    /\ last.before = 2 /\ last.ret.f.removedCount = Num(2)
    /\ Len(Docs("users")) = 0 /\ last.writes = 1

\* C13: after clear() count() is 0 and find() is empty, the returned number
\* is the count before the call, and the collection stays registered: the
\* handle is the one db.collection(name) returns afterwards, and a document
\* inserted next is visible through it and, the handle's array being the one
\* in the root, is in the snapshot.
C13_ClearEmptiesAndKeepsHandle ==
    [][/\ last'.op = "clear"
            => /\ DocsAfter = <<>>
               /\ CountResult(DocsAfter, Undef) = Num(0)
               /\ FindResult(DocsAfter, Undef) = Arr(<<>>)
               /\ last'.ret.f.numRemoved = Num(Len(DocsBefore))
               /\ cache' = cache /\ attached' = attached
               /\ last'.coll \in cache'
       /\ (last.op = "clear" /\ last'.op = "collection" /\ last'.coll = last.coll)
            => /\ last'.before = 1
               /\ UNCHANGED <<storeData, cache, attached, detached>>
       /\ (/\ last.op = "clear" /\ last'.op = "insert"
           /\ last'.coll = last.coll /\ last'.writes = 1)
            => /\ FindResult(DocsAfter, Undef) = Arr(<<last'.ret>>)
               /\ CountResult(DocsAfter, Undef) = Num(1)
               /\ attached[last.coll]
                    => PropOf(PropOf(disk', DB_STORAGE_KEY), last.coll)
                          = Arr(<<last'.ret>>)]_vars

\* clear() emptied a collection of two documents and the snapshot holds the
\* empty collection
C13_Witness ==
    /\ last.op = "clear" /\ last.coll = "users" /\ last.before = 2
    /\ last.ret.f.numRemoved = Num(2)
    /\ attached["users"] /\ Docs("users") = <<>>
    /\ PropOf(PropOf(disk, DB_STORAGE_KEY), "users") = Arr(<<>>)

----------------------------------------------------------------------------
(* Returned values and the stored state: C14 - C15 *)

\* C14: what insert, find, findOne and update return are deep copies: a
\* caller changing a returned document in place, its nested arrays and objects
\* included, changes nothing that is stored, hence no later read and no later
\* snapshot.
C14_ReturnedDocumentsAreCopies ==
    [][(last'.op = "mutate" /\ last'.from \in {"insert", "find", "findOne", "update"})
         => (/\ storeData' = storeData
             /\ detached' = detached
             /\ disk' = disk
             /\ saveStore(storeData', disk', TRUE) = saveStore(storeData, disk, TRUE)
             /\ FindResult(DocsAfter, Undef) = FindResult(DocsBefore, Undef))]_vars

\* the caller pushed onto the tags array of the document findOne returned
\* and the stored document still has the one tag it was inserted with
C14_Witness ==
    /\ last.op = "mutate" /\ last.from = "findOne"
    /\ last.ret.t = "obj"
    /\ PropOf(last.ret, "tags") = Arr(<<Str("js"), Num(9)>>)
    /\ PropOf(Docs("users")[1], "tags") = Arr(<<Str("js")>>)

\* C15: what store.get and store.all return are deep copies: a
\* caller changing a returned object or array in place changes neither what
\* later store.get and store.all calls return nor what the next snapshot
\* write persists.
C15_StoreReadsAreCopies ==
    [][(last'.op = "mutate" /\ last'.from \in {"get", "all"})
         => (/\ storeData' = storeData
             /\ saveStore(storeData', disk', TRUE) = saveStore(storeData, disk, TRUE)
             /\ \A p \in StorePaths :
                   StoreGetValue(storeData', p, Undef) = StoreGetValue(storeData, p, Undef))]_vars

----------------------------------------------------------------------------
(* store.delete, db.collection, the load of the snapshot: C16 - C18 *)

CaseVariants ==
    { <<"users", "users">>, <<"Users", "users">>, <<" Posts ", "posts">> }

\* C17: db.collection(name) returns the handle of the collection whose name
\* is name without surrounding blanks and in lower case, the one handle of
\* that collection, on the same documents; for a name that is no string, or is
\* empty or blank, it throws and creates nothing.
C17_CollectionNamesFoldCase ==
    [][last'.op = "collection"
         => IF last'.arg.t = "str" /\ \E v \in CaseVariants : v[1] = last'.arg.s
            THEN LET v == CHOOSE x \in CaseVariants : x[1] = last'.arg.s
                 IN /\ ~last'.threw
                    /\ last'.coll = v[2]
                    /\ cache' = cache \cup {v[2]}
                    /\ attached'[v[2]]
                    /\ v[2] \in cache
                         => /\ last'.before = 1
                            /\ storeData' = storeData
                            /\ DocsOf(storeData', attached', detached', v[2]) = Docs(v[2])
                    /\ \A n \in CollNames \ {v[2]} :
                          n \in cache =>
                             DocsOf(storeData', attached', detached', n) = Docs(n)
            ELSE /\ last'.threw
                 /\ UNCHANGED <<storeData, disk, cache, attached, detached>>]_vars

\* db.collection('Users') returned the handle that already existed for
\* 'users', with the document inserted through it
C17_Witness ==
    /\ last.op = "collection" /\ last.arg = Str("Users") /\ last.coll = "users"
    /\ last.before = 1 /\ cache = {"users"}
    /\ Len(Docs("users")) = 1

\* C18: whatever the snapshot file holds, after the load the root is a
\* mapping, and envjs() does not throw.
C18_RootIsMappingAfterLoad ==
    /\ phase # "boot" => storeData.t = "obj"
    /\ phase # "crashed"

----------------------------------------------------------------------------
(* failing writes of the snapshot and throwing calls: C19, C20 *)

\* the call of this step has had its effect on the memory
MutationInEffect ==
    CASE last'.op = "set" -> StoreGetValue(storeData', last'.path, Undef) = last'.arg
      [] last'.op = "delete" -> ~Resolves(storeData', last'.path)
      [] last'.op = "insert" -> Len(DocsAfter) > last'.before
      [] last'.op = "update" ->
            \E i \in 1..Len(DocsAfter) :
               \A k \in DOMAIN last'.arg2.f : PropOf(DocsAfter[i], k) = last'.arg2.f[k]
      [] OTHER -> Len(DocsAfter) < last'.before

\* a mutating call that writes the snapshot returns normally with its
\* mutation in effect; a write that fails leaves the file with one of the
\* contents named by afterFailure, a write that succeeds leaves the
\* serialisation of the whole root, earlier unsaved mutations included
WriteStep(afterFailure) ==
    (last'.op \in Mutators /\ last'.writes = 1)
        => /\ ~last'.threw
           /\ MutationInEffect
           /\ IF writeFailed'
              THEN disk' \in afterFailure
              ELSE disk' = JsonValue(storeData')

C20_UpdateNeverThrows ==
    [][last'.op = "update"
         => /\ ~last'.threw
            /\ DocsAfter # DocsBefore => last'.writes = 1]_vars

----------------------------------------------------------------------------
(* handles and the frame of the collection calls: C25, C26 *)

\* C25: the array every handle reads and mutates is the array stored in the
\* root under the collections key for its name, so that the documents seen
\* through the handle are in the snapshot a collection call has written.
C25_HandleArrayIsStoredArray ==
    /\ \A n \in cache : attached[n]
    /\ (last.op \in {"insert", "update", "remove", "clear"}
          /\ last.writes = 1 /\ ~writeFailed)
         => LET slot == PropOf(PropOf(disk, DB_STORAGE_KEY), last.coll)
            IN slot.t = "arr" /\ slot.e = MapCopy(Docs(last.coll))

\* the documents that the handle of collection n holds after the step
DocsLater(n) == DocsOf(storeData', attached', detached', n)

\* d does not match the query of the call of this step
Unmatched(d) == ~matchesQuery(d, last'.arg)

----------------------------------------------------------------------------
(* scheduler: every / once / cron / stop / list *)

NaN == [t |-> "nan"]
Bool(b) == [t |-> "bool", b |-> b]

\* an array of strings whose order is not looked at, as the set of its elements
Keys(ks) == [t |-> "keys", k |-> ks]

\* a string of the caller as the sequence of its characters
Chars(cs) == [t |-> "chars", c |-> cs]

Digits == <<"0", "1", "2", "3", "4", "5", "6", "7", "8", "9">>

\* String(n) for an integer n between -99 and 99
NumChars(n) ==
    LET a == IF n < 0 THEN 0 - n ELSE n
        ds == IF a < 10 THEN <<Digits[a + 1]>>
              ELSE <<Digits[(a \div 10) + 1], Digits[(a % 10) + 1]>>
    IN IF n < 0 THEN <<"-">> \o ds ELSE ds

\* _parseInterval(intervalString): milliseconds or NaN.  parseInt reads an
\* optional sign and the longest run of digits after it; replace(value, '')
\* takes the first occurrence of String(value) out of the string
ParseInterval(cs) ==
    LET IsDigit(c) == \E d \in 1..10 : Digits[d] = c
        DigitVal(c) == (CHOOSE d \in 1..10 : Digits[d] = c) - 1
        neg == cs # <<>> /\ Head(cs) = "-"
        body == IF neg THEN Tail(cs) ELSE cs
        run == CHOOSE k \in 0..Len(body) :
                  /\ \A i \in 1..k : IsDigit(body[i])
                  /\ k < Len(body) => ~IsDigit(body[k + 1])
        RECURSIVE Value(_)
        Value(k) == IF k = 0 THEN 0 ELSE Value(k - 1) * 10 + DigitVal(body[k])
        value == IF neg THEN 0 - Value(run) ELSE Value(run)
        pat == NumChars(value)
        at == {i \in 1..(Len(cs) - Len(pat) + 1) : SubSeq(cs, i, i + Len(pat) - 1) = pat}
        first == CHOOSE i \in at : \A k \in at : i <= k
        rest == IF at = {} THEN cs
                ELSE SubSeq(cs, 1, first - 1) \o SubSeq(cs, first + Len(pat), Len(cs))
        unit == [i \in 1..Len(rest) |->
                    CASE rest[i] = "S" -> "s" [] rest[i] = "M" -> "m"
                      [] rest[i] = "H" -> "h" [] rest[i] = "D" -> "d"
                      [] OTHER -> rest[i]]
    IN IF run = 0 THEN NaN
       ELSE CASE unit = <<"m", "s">> -> Num(value)
              [] unit = <<"s">> -> Num(value * 1000)
              [] unit = <<"m">> -> Num(value * 1000 * 60)
              [] unit = <<"h">> -> Num(value * 1000 * 60 * 60)
              [] unit = <<"d">> -> Num(value * 1000 * 60 * 60 * 24)
              [] OTHER -> NaN

\* typeof interval === 'string' ? this._parseInterval(interval) : interval
IntervalMs(interval) ==
    IF interval.t = "chars" THEN ParseInterval(interval.c) ELSE interval

\* Number(v) for the values given as intervals: NaN, or a number value
ToNumber(v) ==
    CASE v.t = "num" -> v
      [] v.t = "null" -> Num(0)
      [] OTHER -> NaN

\* isNaN(ms) || ms <= 0, and isNaN(ms) || ms < 0
InvalidEvery(ms) == ToNumber(ms) = NaN \/ ToNumber(ms).n <= 0
InvalidOnce(ms) == ToNumber(ms) = NaN \/ ToNumber(ms).n < 0

\* the names every object inherits from Object.prototype, among the ids used
ProtoKeys == {"toString"}

\* this._timers[id] is truthy: an own entry, or an inherited function
TimerEntryTruthy(timers, id) == id \in DOMAIN timers \/ id \in ProtoKeys

\* what callers pass
SchedIds == {"x", "toString"}
Cbs == {"cb1", "cb2"}
Intervals == { Num(100), Num(0), Null, Chars(<<"5", "s">>), Chars(<<"5", "x">>) }
CronExprs == { <<"*", "*", "*", "*", "*">>, <<"*", "*">> }

\* the state after setInterval / setTimeout made a timer for callback cb and
\* this._timers[timerId] = timer
WithTimer(kind, cb, timerId) ==
    [scheduler EXCEPT
        !.timers = Put(@, timerId, scheduler.next),
        !.active = @ \cup {[h |-> scheduler.next, kind |-> kind, cb |-> cb, id |-> timerId]},
        !.next = @ + 1]

\* the part of every, once and cron after the check of their first argument
Schedule(op, kind, invalid, arg, cb, id) ==
    /\ IF invalid
       THEN /\ call' = [NoModuleCall EXCEPT !.op = op, !.id = id, !.arg = arg, !.cb = cb,
                                            !.ret = Null]
            /\ UNCHANGED scheduler
       ELSE /\ scheduler.next <= MaxTimers
            /\ scheduler' = WithTimer(kind, cb, id)
            /\ call' = [NoModuleCall EXCEPT !.op = op, !.id = id, !.arg = arg, !.cb = cb,
                                            !.ret = Str(id), !.h = scheduler.next]
    /\ UNCHANGED <<storeVars, mock, registry, cli, server, watcher>>

\* scheduler.every(interval, callback, id)
Every(interval, cb, id) ==
    Schedule("every", "interval", InvalidEvery(IntervalMs(interval)), interval, cb, id)

\* scheduler.once(delay, callback, id)
Once(delay, cb, id) ==
    Schedule("once", "timeout", InvalidOnce(IntervalMs(delay)), delay, cb, id)

\* scheduler.cron(cronExpression, callback, id); parts is the expression split
\* at its spaces
Cron(parts, cb, id) ==
    Schedule("cron", "interval", Len(parts) < 5 \/ Len(parts) > 6, Arr(parts), cb, id)

\* scheduler.stop(id): [ret, sch]; clearInterval and clearTimeout of an
\* inherited function clear nothing, delete of an inherited name deletes nothing
StopResult(sch, id) ==
    IF id \in DOMAIN sch.timers
    THEN [ret |-> Bool(TRUE),
          sch |-> [sch EXCEPT !.timers = Without(@, id),
                              !.active = {a \in @ : a.h # sch.timers[id]},
                              !.stopped = @ \cup {sch.timers[id]}]]
    ELSE [ret |-> Bool(TimerEntryTruthy(sch.timers, id)), sch |-> sch]

Stop(id) ==
    /\ \E r \in {StopResult(scheduler, id)} :
          /\ scheduler' = r.sch
          /\ call' = [NoModuleCall EXCEPT !.op = "stop", !.id = id, !.ret = r.ret]
    /\ UNCHANGED <<storeVars, mock, registry, cli, server, watcher>>

\* scheduler.list(): Object.keys(this._timers), as a set
List ==
    /\ call' = [NoModuleCall EXCEPT !.op = "list", !.ret = Keys(DOMAIN scheduler.timers)]
    /\ UNCHANGED <<storeVars, scheduler, mock, registry, cli, server, watcher>>

\* the runtime runs the timer a: its callback is invoked; a timeout is over
\* after it and its wrapper deletes this._timers[timerId]
Fire(a) ==
    /\ a \in scheduler.active
    /\ scheduler' = IF a.kind = "timeout"
                    THEN [scheduler EXCEPT !.active = @ \ {a},
                                           !.timers = Without(@, a.id)]
                    ELSE scheduler
    /\ call' = [NoModuleCall EXCEPT !.op = "fire", !.id = a.id, !.cb = a.cb, !.h = a.h]
    /\ UNCHANGED <<storeVars, mock, registry, cli, server, watcher>>

NextScheduler ==
    \/ \E i \in Intervals, cb \in Cbs, id \in SchedIds : Every(i, cb, id)
    \/ \E i \in Intervals, id \in SchedIds : Once(i, "cb1", id)
    \/ \E parts \in CronExprs : Cron(parts, "cb2", "x")
    \/ \E id \in SchedIds : Stop(id)
    \/ List
    \/ \E a \in scheduler.active : Fire(a)

SpecScheduler == InitDb /\ [][NextScheduler]_vars

----------------------------------------------------------------------------
(* The scheduler: C21, C27 *)

Units == { <<"m", "s">>, <<"s">>, <<"m">>, <<"h">>, <<"d">> }

\* interval is a valid first argument of every (least = 1) or once (least = 0):
\* a number of milliseconds, or a digit followed by a unit
ValidInterval(interval, least) ==
    CASE interval.t = "num" -> interval.n >= least
      [] interval.t = "chars" ->
            \E d \in least..9, u \in Units : interval.c = <<Digits[d + 1]>> \o u
      [] OTHER -> FALSE

\* the call of this step was given a valid interval
ValidCall == ValidInterval(call'.arg, IF call'.op = "every" THEN 1 ELSE 0)

\* C21: every with a valid interval returns its id, which list() then holds;
\* stop of a listed id returns true, unlists it and its callback is not
\* invoked afterwards; stop of an id that is not listed returns false and
\* changes nothing; every and once with an invalid interval return null and
\* register nothing.
C21_SchedulerLifecycle ==
    [][/\ (call'.op = "every" /\ ValidCall)
            => /\ call'.ret = Str(call'.id)
               /\ call'.id \in DOMAIN scheduler'.timers
       /\ (call'.op \in {"every", "once"} /\ ~ValidCall)
            => /\ call'.ret = Null
               /\ scheduler' = scheduler
       /\ call'.op = "stop"
            => IF call'.id \in DOMAIN scheduler.timers
               THEN /\ call'.ret = Bool(TRUE)
                    /\ call'.id \notin DOMAIN scheduler'.timers
                    /\ \A a \in scheduler'.active : a.h # scheduler.timers[call'.id]
               ELSE /\ call'.ret = Bool(FALSE)
                    /\ scheduler' = scheduler
       /\ call'.op = "fire" => call'.h \notin scheduler.stopped]_vars

\* C27: every timer that every, once or cron started and that was neither
\* stopped nor, for once, has fired is listed under its id, where stop(id)
\* cancels it; also when its id was given again to every, once or cron.
C27_ActiveTimersAreListed ==
    \A a \in scheduler.active :
        /\ a.id \in DOMAIN scheduler.timers
        /\ scheduler.timers[a.id] = a.h

----------------------------------------------------------------------------
(* mock: mock / restore / isMocked / listMocks *)

\* what callers pass as keyPath, split at its dots, and as mockFn
KeyPaths == MockKeys \cup { <<"os">>, <<"os", "nothing">>, <<"nomodule", "f">> }
MockFns == { <<"mockFn", "f">>, <<"mockFn", "g">> }

\* mock that stores the function it replaces, be it a mock
MockResultKeepsLatest(m, inst, key, mockFn) ==
    IF key \notin MockKeys
    THEN [threw |-> TRUE, m |-> m]
    ELSE [threw |-> FALSE,
          m |-> [m EXCEPT !.originals = Put(@, key, m.fns[inst][key]),
                          !.fns[inst][key] = mockFn,
                          !.mocked = Put(@, key, mockFn)]]

\* mock.mock(keyPath, mockFn) called on instance inst: [threw, m]
MockResult(m, inst, key, mockFn) ==
    IF key \notin MockKeys        \* not two parts, no such module, no such function
    THEN [threw |-> TRUE, m |-> m]
    ELSE [threw |-> FALSE,
          m |-> [m EXCEPT !.originals = IF key \in DOMAIN @ THEN @
                                        ELSE Put(@, key, m.fns[inst][key]),
                          !.fns[inst][key] = mockFn,
                          !.mocked = Put(@, key, mockFn)]]

\* mock.restore(keyPath) called on instance inst: [threw, m]
RestoreResult(m, inst, key) ==
    IF Len(key) # 2 \/ key[1] \notin {k[1] : k \in MockKeys}
    THEN [threw |-> TRUE, m |-> m]
    ELSE IF key \notin DOMAIN m.originals
    THEN IF key \in DOMAIN m.mocked
         THEN [threw |-> FALSE, m |-> [m EXCEPT !.mocked = Without(@, key)]]
         ELSE [threw |-> TRUE, m |-> m]
    ELSE [threw |-> FALSE,
          m |-> [m EXCEPT !.fns[inst][key] = m.originals[key],
                          !.mocked = Without(@, key),
                          !.originals = Without(@, key)]]

\* mock.restore() called on instance inst: restore(k) for every k in
\* mockedFunctions, an exception of which is caught
RECURSIVE RestoreAllResult(_, _, _)
RestoreAllResult(m, inst, keys) ==
    IF keys = {} THEN m
    ELSE LET k == CHOOSE x \in keys : TRUE
         IN RestoreAllResult(RestoreResult(m, inst, k).m, inst, keys \ {k})

MockCall(op, inst, key) ==
    [NoModuleCall EXCEPT !.op = op, !.inst = inst, !.key = key]

Mock(inst, key, mockFn) ==
    /\ \E r \in {MockResult(mock, inst, key, mockFn)} :
          /\ mock' = r.m
          /\ call' = [MockCall("mock", inst, key) EXCEPT !.threw = r.threw, !.cb = mockFn]
    /\ UNCHANGED <<storeVars, scheduler, registry, cli, server, watcher>>

Restore(inst, key) ==
    /\ \E r \in {RestoreResult(mock, inst, key)} :
          /\ mock' = r.m
          /\ call' = [MockCall("restore", inst, key) EXCEPT !.threw = r.threw]
    /\ UNCHANGED <<storeVars, scheduler, registry, cli, server, watcher>>

RestoreAll(inst) ==
    /\ mock' = RestoreAllResult(mock, inst, DOMAIN mock.mocked)
    /\ call' = MockCall("restoreAll", inst, <<>>)
    /\ UNCHANGED <<storeVars, scheduler, registry, cli, server, watcher>>

\* mock.isMocked(keyPath): keyPath in mockedFunctions
IsMocked(inst, key) ==
    /\ call' = [MockCall("isMocked", inst, key) EXCEPT
                   !.ret = Bool(key \in DOMAIN mock.mocked)]
    /\ UNCHANGED <<storeVars, scheduler, mock, registry, cli, server, watcher>>

\* mock.listMocks(): Object.keys(mockedFunctions)
ListMocks(inst) ==
    /\ call' = [MockCall("listMocks", inst, <<>>) EXCEPT !.ret = Keys(DOMAIN mock.mocked)]
    /\ UNCHANGED <<storeVars, scheduler, mock, registry, cli, server, watcher>>

\* the function of instance inst at key is called: cb is the function that runs
CallFunction(inst, key) ==
    /\ call' = [MockCall("function", inst, key) EXCEPT !.cb = mock.fns[inst][key]]
    /\ UNCHANGED <<storeVars, scheduler, mock, registry, cli, server, watcher>>

\* the calls of the mock module made on the instances insts
MockCalls(insts) ==
    \/ \E i \in insts, key \in KeyPaths, f \in MockFns : Mock(i, key, f)
    \/ \E i \in insts, key \in KeyPaths : Restore(i, key)
    \/ \E i \in insts : RestoreAll(i)
    \/ \E i \in insts, key \in KeyPaths : IsMocked(i, key)
    \/ \E i \in insts : ListMocks(i)
    \/ \E i \in insts, key \in MockKeys : CallFunction(i, key)

\* one instance
NextMock == MockCalls({1})

SpecMock == InitDb /\ [][NextMock]_vars

\* two instances made by two calls of envjs()
NextMocks == MockCalls(Insts)

SpecMocks == InitDb /\ [][NextMocks]_vars

----------------------------------------------------------------------------
(* The mock module: C22, C28 *)

\* the function of instance i at key k is replaced by a mock
Replaced(m, i, k) == k \in MockKeys /\ m.fns[i][k] # Orig(i, k)

\* C22: after mock(k, f) isMocked(k) is true, listMocks() holds k and the
\* module function k is f; after restore(k) isMocked(k) is false, k is not
\* listed and the function is the original one again, however often k was
\* mocked; restore() does so for every mocked key; restore(k) of a key that
\* is not mocked throws.
C22_MockRoundTrip ==
    [][LET i == call'.inst
           k == call'.key
       IN /\ (call'.op = "mock" /\ ~call'.threw)
               => /\ k \in DOMAIN mock'.mocked
                  /\ mock'.fns[i][k] = call'.cb
          /\ (call'.op = "restore" /\ k \in DOMAIN mock.mocked)
               => /\ ~call'.threw
                  /\ k \notin DOMAIN mock'.mocked
                  /\ mock'.fns[i][k] = Orig(i, k)
                  /\ \A j \in MockKeys \ {k} : mock'.fns[i][j] = mock.fns[i][j]
          /\ (call'.op = "restore" /\ k \notin DOMAIN mock.mocked)
               => /\ call'.threw
                  /\ mock' = mock
          /\ call'.op = "restoreAll"
               => /\ DOMAIN mock'.mocked = {}
                  /\ \A j \in MockKeys : mock'.fns[i][j] = Orig(i, j)
          /\ call'.op = "isMocked" => call'.ret = Bool(Replaced(mock, i, k))
          /\ call'.op = "listMocks"
               => call'.ret = Keys({j \in MockKeys : Replaced(mock, i, j)})
          /\ call'.op = "function"
               => call'.cb = (IF k \in DOMAIN mock.mocked THEN mock.mocked[k]
                              ELSE Orig(i, k))]_vars

\* os.platform is the original function again after a restore, while
\* process.cwd is still mocked
C22_Witness ==
    /\ call.op = "restore" /\ ~call.threw /\ call.key = <<"os", "platform">>
    /\ mock.fns[1][<<"os", "platform">>] = Orig(1, <<"os", "platform">>)
    /\ <<"process", "cwd">> \in DOMAIN mock.mocked

\* C28: on every instance isMocked(k) is true exactly when the function k of
\* that instance is replaced by a mock, and a replaced function can be
\* restored through its instance.
C28_IsMockedPerInstance ==
    \A i \in Insts, k \in MockKeys :
        /\ (k \in DOMAIN mock.mocked) <=> Replaced(mock, i, k)
        /\ Replaced(mock, i, k)
             => LET r == RestoreResult(mock, i, k)
                IN ~r.threw /\ ~Replaced(r.m, i, k)

----------------------------------------------------------------------------
(* plugin.register, use, loader.load *)

\* modules[name]: an own property, a member of Object.prototype, or undefined
ModuleOf(name) ==
    IF name \in DOMAIN registry.modules THEN registry.modules[name]
    ELSE IF name \in ProtoKeys THEN [t |-> "function", name |-> name]
    ELSE Undef

\* what callers pass
ModuleNames == {"file", "greeter", "logger", "toString"}
ModuleContents == { Obj([hello |-> Num(1)]), Arr(<<>>), Null, Str("x") }

\* plugin.register(name, moduleContent)
Register(name, moduleContent) ==
    /\ IF Truthy(ModuleOf(name)) \/ moduleContent.t \notin {"obj", "arr"}
       THEN /\ call' = [NoModuleCall EXCEPT !.op = "register", !.id = name,
                                            !.arg = moduleContent, !.threw = TRUE]
            /\ UNCHANGED registry
       ELSE /\ registry' = [registry EXCEPT !.modules = Put(@, name, moduleContent)]
            /\ call' = [NoModuleCall EXCEPT !.op = "register", !.id = name,
                                            !.arg = moduleContent]
    /\ UNCHANGED <<storeVars, scheduler, mock, cli, server, watcher>>

\* use(name)
Use(name) ==
    /\ call' = [NoModuleCall EXCEPT !.op = "use", !.id = name,
                                    !.threw = ~Truthy(ModuleOf(name)),
                                    !.ret = IF Truthy(ModuleOf(name)) THEN ModuleOf(name)
                                            ELSE Undef]
    /\ UNCHANGED <<storeVars, scheduler, mock, registry, cli, server, watcher>>

\* loader.load(moduleNames) for an array of names: the exception of the first
\* name without a module leaves the loop, else the object of the modules
Load(moduleNames) ==
    /\ LET threw == \E i \in 1..Len(moduleNames) : ~Truthy(ModuleOf(moduleNames[i]))
           loadedModules == [n \in {moduleNames[i] : i \in 1..Len(moduleNames)} |->
                                ModuleOf(n)]
       IN call' = [NoModuleCall EXCEPT !.op = "load", !.arg = Arr(moduleNames),
                                       !.threw = threw,
                                       !.ret = IF threw THEN Undef ELSE Obj(loadedModules)]
    /\ UNCHANGED <<storeVars, scheduler, mock, registry, cli, server, watcher>>

NextPlugin ==
    \/ \E name \in ModuleNames, c \in ModuleContents : Register(name, c)
    \/ \E name \in ModuleNames : Use(name)
    \/ \E a, b \in ModuleNames : Load(<<a>>) \/ Load(<<a, b>>)

SpecPlugin == InitDb /\ [][NextPlugin]_vars

----------------------------------------------------------------------------
(* The registry of modules: C23 *)

\* a module called name exists: a built-in one or a registered one
Exists(name) == name \in DOMAIN registry.modules

\* C23: register throws and changes nothing when a module of that name exists
\* or the content is not a non-null object; otherwise use(name) and
\* load([name]) return the content afterwards; use and load throw for every
\* name that has no module, load returning nothing.
C23_RegisterUseLoad ==
    [][/\ call'.op = "register"
            => IF Exists(call'.id) \/ call'.arg.t \notin {"obj", "arr"}
               THEN call'.threw /\ registry' = registry
               ELSE /\ ~call'.threw
                    /\ registry'.modules =
                          Put(registry.modules, call'.id, call'.arg)
       /\ call'.op = "use"
            => IF Exists(call'.id)
               THEN ~call'.threw /\ call'.ret = registry.modules[call'.id]
               ELSE call'.threw /\ call'.ret = Undef
       /\ call'.op = "load"
            => LET names == {call'.arg.e[i] : i \in 1..Len(call'.arg.e)}
               IN IF \A n \in names : Exists(n)
                  THEN /\ ~call'.threw
                       /\ call'.ret = Obj([n \in names |-> registry.modules[n]])
                  ELSE call'.threw /\ call'.ret = Undef]_vars

----------------------------------------------------------------------------
(* cli: command, default, parse, run *)

\* the strings of an argument list by their prefix: "--name", "-chars", other
Long(name) == [k |-> "long", name |-> name]
Short(chars) == [k |-> "short", chars |-> chars]
Word(w) == [k |-> "word", w |-> w]

\* commands[arg] on the object literal commands
CommandOf(c, arg) ==
    IF arg \in DOMAIN c.commands THEN Obj(c.commands[arg])
    ELSE IF arg \in ProtoKeys THEN [t |-> "function", name |-> arg]
    ELSE Undef

\* the loop of parseArguments over argv, from index i
RECURSIVE ParseLoop(_, _, _, _)
ParseLoop(c, argv, i, acc) ==
    IF i > Len(argv) THEN [t |-> "parsed", commandName |-> acc.commandName,
                           args |-> acc.args, options |-> acc.options]
    ELSE LET arg == argv[i] IN
         CASE arg.k = "long" ->
                IF i < Len(argv) /\ argv[i + 1].k = "word"
                THEN ParseLoop(c, argv, i + 2,
                        [acc EXCEPT !.options = Put(@, arg.name, Str(argv[i + 1].w)),
                                    !.potentialCommand = FALSE])
                ELSE ParseLoop(c, argv, i + 1,
                        [acc EXCEPT !.options = Put(@, arg.name, Bool(TRUE)),
                                    !.potentialCommand = FALSE])
           [] arg.k = "short" ->
                ParseLoop(c, argv, i + 1,
                    [acc EXCEPT !.options =
                                   [n \in DOMAIN @ \cup {arg.chars[j] : j \in 1..Len(arg.chars)} |->
                                       IF n \in {arg.chars[j] : j \in 1..Len(arg.chars)}
                                       THEN Bool(TRUE) ELSE @[n]],
                                !.potentialCommand = FALSE])
           [] OTHER ->
                IF /\ acc.potentialCommand /\ acc.commandName = Null
                   /\ Truthy(CommandOf(c, arg.w))
                THEN ParseLoop(c, argv, i + 1,
                        [acc EXCEPT !.commandName = Str(arg.w), !.potentialCommand = FALSE])
                ELSE ParseLoop(c, argv, i + 1, [acc EXCEPT !.args = Append(@, arg.w)])

\* parseArguments(argv): the cached result when there is one
parseArguments(c, argv) ==
    IF c.parsedArgsCache # Null THEN c.parsedArgsCache
    ELSE ParseLoop(c, argv, 1, [commandName |-> Null, args |-> <<>>,
                                options |-> EmptyMap, potentialCommand |-> TRUE])

\* options.help || options.h
HelpAsked(options) ==
    \E n \in {"help", "h"} : n \in DOMAIN options /\ Truthy(options[n])

\* the default handler of test-cli.js finds nothing to act on
NothingMeaningful(parsed) ==
    /\ parsed.args = <<>>
    /\ DOMAIN parsed.options = {} \/ HelpAsked(parsed.options)

NoOutput == [t |-> "run", helps |-> <<>>, handlers |-> <<>>, exitCode |-> 0]

\* run(argv) at nesting depth, with the output so far: the cli state and the
\* output afterwards.  helps lists the command name of every help message,
\* handlers the name of every handler invoked.
RECURSIVE RunResult(_, _, _, _)
RunResult(c, argv, depth, out) ==
    LET parsed == parseArguments(c, argv)
        c1 == [c EXCEPT !.parsedArgsCache = parsed]
        failed == [cli |-> c1, out |-> [out EXCEPT !.exitCode = 1]]
    IN IF HelpAsked(parsed.options)
       THEN [cli |-> c1, out |-> [out EXCEPT !.helps = Append(@, parsed.commandName)]]
       ELSE IF parsed.commandName # Null
       THEN LET commandToRun == CommandOf(c1, parsed.commandName.s)
            IN IF commandToRun.t # "obj" THEN failed
               ELSE IF commandToRun.f.required /\ parsed.args = <<>> THEN failed
               ELSE [cli |-> c1,
                     out |-> [out EXCEPT !.handlers = Append(@, parsed.commandName.s)]]
       ELSE CASE c1.defaultCommand = "none" ->
                   [cli |-> c1, out |-> [out EXCEPT !.helps = Append(@, Null),
                                                    !.exitCode = 1]]
              [] c1.defaultCommand = "plain" ->
                   [cli |-> c1, out |-> [out EXCEPT !.handlers = Append(@, "[default]")]]
              [] OTHER ->
                   LET invoked == [out EXCEPT !.handlers = Append(@, "[default]")]
                   IN IF ~NothingMeaningful(parsed)
                      THEN [cli |-> c1, out |-> [invoked EXCEPT !.exitCode = 1]]
                      ELSE IF depth >= MaxStack
                      THEN [cli |-> c1, out |-> [invoked EXCEPT !.exitCode = 1]]
                      ELSE RunResult(c1, <<Long("help")>>, depth + 1, invoked)

\* what callers pass
CommandNames == {"greet", "run"}
DefaultHandlers == {"plain", "helpWhenEmpty"}
Argvs == { <<>>, <<Long("help")>>, <<Short(<<"h">>)>>, <<Word("greet")>>,
           <<Word("greet"), Long("help")>>, <<Word("run")>>,
           <<Long("times"), Word("2")>> }

\* cli.command(name, ..., handler): "run" requires its first argument
Command(name) ==
    /\ IF Truthy(CommandOf(cli, name))
       THEN /\ call' = [NoModuleCall EXCEPT !.op = "command", !.id = name, !.threw = TRUE]
            /\ UNCHANGED cli
       ELSE /\ cli' = [cli EXCEPT !.commands = Put(@, name, [required |-> name = "run"])]
            /\ call' = [NoModuleCall EXCEPT !.op = "command", !.id = name]
    /\ UNCHANGED <<storeVars, scheduler, mock, registry, server, watcher>>

\* cli.default(handler)
SetDefault(handler) ==
    /\ cli' = [cli EXCEPT !.defaultCommand = handler]
    /\ call' = [NoModuleCall EXCEPT !.op = "default", !.id = handler]
    /\ UNCHANGED <<storeVars, scheduler, mock, registry, server, watcher>>

\* cli.parse(argv)
Parse(argv) ==
    /\ cli' = [cli EXCEPT !.parsedArgsCache = parseArguments(cli, argv)]
    /\ call' = [NoModuleCall EXCEPT !.op = "parse", !.arg = Arr(argv),
                                    !.ret = parseArguments(cli, argv)]
    /\ UNCHANGED <<storeVars, scheduler, mock, registry, server, watcher>>

\* cli.run(argv), the handler's own call of run included
Run(argv) ==
    /\ \E r \in {RunResult(cli, argv, 1, NoOutput)} :
          /\ cli' = r.cli
          /\ call' = [NoModuleCall EXCEPT !.op = "run", !.arg = Arr(argv), !.ret = r.out]
    /\ UNCHANGED <<storeVars, scheduler, mock, registry, server, watcher>>

NextCli ==
    \/ \E name \in CommandNames : Command(name)
    \/ \E handler \in DefaultHandlers : SetDefault(handler)
    \/ \E argv \in Argvs : Parse(argv)
    \/ \E argv \in Argvs : Run(argv)

SpecCli == InitDb /\ [][NextCli]_vars

----------------------------------------------------------------------------
(* cli.run acts on its own arguments: C24 *)

\* C24: run(['--help']) prints the help message once and invokes no handler,
\* whatever an earlier run or parse saw; run([]) with the default handler of
\* test-cli.js invokes that handler once and shows the help once.
C24_RunActsOnItsArguments ==
    [][/\ call'.op = "run" /\ call'.arg = Arr(<<Long("help")>>)
            => call'.ret.helps = <<Null>> /\ call'.ret.handlers = <<>>
       /\ call'.op = "run" /\ call'.arg = Arr(<<>>) /\ cli.defaultCommand = "helpWhenEmpty"
            => /\ call'.ret.helps = <<Null>>
               /\ call'.ret.handlers = <<"[default]">>
               /\ call'.ret.exitCode = 0]_vars

----------------------------------------------------------------------------
(* server: listen, close and their callbacks *)

Ports == {3000, 3001}

\* the servers that hold, or are about to hold, a port
Live(srv) == {s \in DOMAIN srv.servers : srv.servers[s].state \in {"pending", "listening"}}
NowListening(srv) == {s \in DOMAIN srv.servers : srv.servers[s].state = "listening"}

ServerCall(op, id, ret) ==
    [NoModuleCall EXCEPT !.op = op, !.h = id, !.ret = ret]

\* listen(port): the existing instance when isListening && serverInstance,
\* else http.createServer and serverInstance.listen, whose callback is pending
Listen(port) ==
    /\ ~server.crashed
    /\ IF server.isListening /\ server.serverInstance # 0
       THEN /\ call' = ServerCall("listen", server.serverInstance, Str("existing"))
            /\ UNCHANGED server
       ELSE /\ Cardinality(DOMAIN server.servers) < MaxServers
            /\ LET id == Cardinality(DOMAIN server.servers) + 1
               IN /\ server' = [server EXCEPT
                                   !.serverInstance = id,
                                   !.servers = [s \in DOMAIN @ \cup {id} |->
                                                   IF s = id
                                                   THEN [port |-> port, state |-> "pending"]
                                                   ELSE @[s]]]
                  /\ call' = ServerCall("listen", id, Str("created"))
    /\ UNCHANGED <<storeVars, scheduler, mock, registry, cli, watcher>>

\* the event loop settles the listen of server id: 'error' (EADDRINUSE) when
\* another server holds the port, else the 'listening' callback, which reads
\* serverInstance.address() and throws when serverInstance is null
ListenSettles(id) ==
    /\ ~server.crashed
    /\ id \in DOMAIN server.servers
    /\ server.servers[id].state = "pending"
    /\ IF \E s \in NowListening(server) : server.servers[s].port = server.servers[id].port
       THEN /\ server' = [server EXCEPT !.isListening = FALSE,
                                         !.servers[id].state = "failed"]
            /\ call' = ServerCall("listenSettles", id, Str("rejected"))
       ELSE IF server.serverInstance = 0
       THEN /\ server' = [server EXCEPT !.isListening = TRUE,
                                         !.servers[id].state = "listening",
                                         !.crashed = TRUE]
            /\ call' = [ServerCall("listenSettles", id, Undef) EXCEPT !.threw = TRUE]
       ELSE /\ server' = [server EXCEPT !.isListening = TRUE,
                                         !.servers[id].state = "listening"]
            /\ call' = ServerCall("listenSettles", id, Str("resolved"))
    /\ UNCHANGED <<storeVars, scheduler, mock, registry, cli, watcher>>

\* close(): serverInstance.close(callback) when serverInstance && isListening,
\* else the promise resolves at once
Close ==
    /\ ~server.crashed
    /\ IF server.serverInstance # 0 /\ server.isListening
       THEN /\ server.serverInstance \notin server.closing
            /\ server' = [server EXCEPT !.closing = @ \cup {server.serverInstance}]
            /\ call' = ServerCall("close", server.serverInstance, Str("pending"))
       ELSE /\ call' = ServerCall("close", server.serverInstance, Str("resolved"))
            /\ UNCHANGED server
    /\ UNCHANGED <<storeVars, scheduler, mock, registry, cli, watcher>>

\* the callback of serverInstance.close for server id.  A listening server
\* is closed.  A server whose listen is still pending either has no handle
\* yet (the callback gets an error and the listen goes on) or is closed
\* before it emits 'listening'.
CloseSettles(id) ==
    /\ ~server.crashed
    /\ id \in server.closing
    /\ \E ok \in BOOLEAN :
          /\ ok \/ server.servers[id].state # "listening"
          /\ IF ok
             THEN /\ server' = [server EXCEPT !.closing = @ \ {id},
                                               !.servers[id].state = "closed",
                                               !.isListening = FALSE,
                                               !.serverInstance = 0]
                  /\ call' = ServerCall("closeSettles", id, Str("resolved"))
             ELSE /\ server' = [server EXCEPT !.closing = @ \ {id}]
                  /\ call' = ServerCall("closeSettles", id, Str("rejected"))
    /\ UNCHANGED <<storeVars, scheduler, mock, registry, cli, watcher>>

NextServer ==
    \/ \E port \in Ports : Listen(port)
    \/ \E id \in 1..MaxServers : ListenSettles(id)
    \/ Close
    \/ \E id \in 1..MaxServers : CloseSettles(id)

SpecServer == InitDb /\ [][NextServer]_vars

----------------------------------------------------------------------------
(* One http server at a time: C29 *)

\* C29: at most one server created by listen is pending or listening; a
\* listen while one is pending or listening returns it and creates none;
\* when a close() resolves no server is listening.
C29_AtMostOneServer ==
    [][/\ Cardinality(Live(server')) <= 1
       /\ call'.op = "listen" /\ Live(server) # {}
            => /\ call'.h \in Live(server)
               /\ call'.ret = Str("existing")
               /\ server'.servers = server.servers
       /\ call'.op \in {"close", "closeSettles"} /\ call'.ret = Str("resolved")
            => NowListening(server') = {}]_vars

----------------------------------------------------------------------------
(* watcher: watch, file events, the debounce timer, close and closeAll *)

\* the filename of an fs.watch event; "" is a falsy one (null)
Filenames == {"a.txt", "b.txt", ""}

WatcherCall(op, id, ret) ==
    [NoModuleCall EXCEPT !.op = op, !.h = id, !.ret = ret]

\* watch(path, callback)
Watch ==
    /\ watcher.nextWatcherId <= MaxWatchers
    /\ LET watcherId == watcher.nextWatcherId
       IN /\ watcher' = [watcher EXCEPT
                            !.nextWatcherId = @ + 1,
                            !.activeWatchers = @ \cup {watcherId},
                            !.watchers = [w \in DOMAIN @ \cup {watcherId} |->
                                            IF w = watcherId
                                            THEN [open |-> TRUE, debounceTimeout |-> FALSE,
                                                  lastFilenames |-> {}]
                                            ELSE @[w]]]
          /\ call' = WatcherCall("watch", watcherId, Undef)
    /\ UNCHANGED <<storeVars, scheduler, mock, registry, cli, server>>

\* the listener of fs.watch of an open watcher gets an event
FileEvent(id, filename) ==
    /\ id \in DOMAIN watcher.watchers
    /\ watcher.watchers[id].open
    /\ watcher' = [watcher EXCEPT
                      !.watchers[id].lastFilenames =
                          IF watcher.watchers[id].debounceTimeout
                          THEN IF filename # "" THEN @ \cup {filename} ELSE @
                          ELSE IF filename # "" THEN {filename} ELSE {},
                      !.watchers[id].debounceTimeout = TRUE]
    /\ call' = WatcherCall("event", id, Str(filename))
    /\ UNCHANGED <<storeVars, scheduler, mock, registry, cli, server>>

\* the debounce timer of watcher id fires: userCallback for every filename,
\* or once with null
DebounceFires(id) ==
    /\ id \in DOMAIN watcher.watchers
    /\ watcher.watchers[id].debounceTimeout
    /\ watcher' = [watcher EXCEPT !.watchers[id].debounceTimeout = FALSE,
                                  !.watchers[id].lastFilenames = {}]
    /\ call' = [WatcherCall("debounce", id, Keys(watcher.watchers[id].lastFilenames))
                   EXCEPT !.cb = "userCallback"]
    /\ UNCHANGED <<storeVars, scheduler, mock, registry, cli, server>>

\* watcherInstance.close()
CloseWatcher(id) ==
    /\ id \in DOMAIN watcher.watchers
    /\ watcher' = [watcher EXCEPT !.watchers[id].open = FALSE,
                                  !.activeWatchers = @ \ {id},
                                  !.closed = @ \cup {id}]
    /\ call' = WatcherCall("close", id, Undef)
    /\ UNCHANGED <<storeVars, scheduler, mock, registry, cli, server>>

\* watcher.closeAll()
CloseAll ==
    /\ watcher' = [watcher EXCEPT
                      !.watchers = [w \in DOMAIN @ |->
                                      IF w \in watcher.activeWatchers
                                      THEN [@[w] EXCEPT !.open = FALSE] ELSE @[w]],
                      !.activeWatchers = {},
                      !.closed = @ \cup watcher.activeWatchers]
    /\ call' = WatcherCall("closeAll", 0, Undef)
    /\ UNCHANGED <<storeVars, scheduler, mock, registry, cli, server>>

\* the 'error' event of the fs watcher of an open watcher
WatcherError(id) ==
    /\ id \in DOMAIN watcher.watchers
    /\ watcher.watchers[id].open
    /\ watcher' = [watcher EXCEPT !.watchers[id].open = FALSE,
                                  !.activeWatchers = @ \ {id}]
    /\ call' = WatcherCall("error", id, Undef)
    /\ UNCHANGED <<storeVars, scheduler, mock, registry, cli, server>>

\* watcher.getActiveWatchers()
GetActiveWatchers ==
    /\ call' = WatcherCall("getActiveWatchers", 0, Keys(watcher.activeWatchers))
    /\ UNCHANGED <<storeVars, scheduler, mock, registry, cli, server, watcher>>

NextWatcher ==
    \/ Watch
    \/ \E id \in 1..MaxWatchers, filename \in Filenames : FileEvent(id, filename)
    \/ \E id \in 1..MaxWatchers : DebounceFires(id)
    \/ \E id \in 1..MaxWatchers : CloseWatcher(id)
    \/ CloseAll
    \/ \E id \in 1..MaxWatchers : WatcherError(id)
    \/ GetActiveWatchers

SpecWatcher == InitDb /\ [][NextWatcher]_vars

----------------------------------------------------------------------------
(* A closed watcher is silent: C30 *)

\* C30: once close() or closeAll() has returned for a watcher, its id is
\* not among getActiveWatchers() and its user callback is not invoked.
C30_ClosedWatcherIsSilent ==
    [][/\ call'.op = "getActiveWatchers" => call'.ret.k \cap watcher.closed = {}
       /\ call'.op = "debounce" /\ call'.cb = "userCallback"
            => call'.h \notin watcher.closed]_vars

====
